---- MODULE Spec2Model ----
(***************************************************************************)
(* zstate: a generic finite-state-machine engine.                          *)
(*                                                                         *)
(* The repository holds two shapes of the engine:                          *)
(*   "stateless"  src/errors.go (lines 50-180): Trigger(ctx, currentState, *)
(*                event) returns (state, error); transitions carry guard,  *)
(*                before and after callbacks; errors are typed values.     *)
(*   "stateful"   src/unnamed/part_003: the engine owns currentState behind*)
(*                a sync.RWMutex; Trigger(ctx, event) returns error; the   *)
(*                event value may implement BeforeTransitionEvent and      *)
(*                AfterTransitionEvent; errors are fmt.Errorf strings.     *)
(* The variable mode says which of the two is being run.                   *)
(***************************************************************************)
EXTENDS Integers, Sequences, FiniteSets, TLC

VARIABLES
    mode,               \* "stateless" | "stateful": which engine shape runs
    states,             \* stateMachineBuilder.states (a Go map: a reference)
    transitions,        \* stateMachineBuilder.transitions (map S -> map E -> transition)
    initialState,       \* stateMachineBuilder.initialState (stateful)
    isInitialStateSet,  \* stateMachineBuilder.isInitialStateSet (stateful)
    buildErr,           \* error returned by the most recent Build (NoError: none)
    engines,            \* the caller's engine variables: the *StateMachine each holds
    threads,            \* the goroutines that call the engines
    frames,             \* per goroutine: the Trigger call it is in, or the result of
                        \* its last one while the caller still looks at it
    replaced,           \* history: the guard of the entry that the latest
                        \* AddTransition replaced ("none": it replaced nothing;
                        \* "untracked": no history is kept)
    cell,               \* the current state a caller keeps beside a stateless engine
                        \* (MusicPlayer.currentState); NoState when there is none
    diagram,            \* what the latest GenerateDiagram call was given and
                        \* returned; NoDiagram when there was none
    applied             \* history: the options the latest AddTransition was
                        \* given; Unrecorded when no history is kept

builderVars == <<states, transitions, initialState, isInitialStateSet>>
vars == <<mode, states, transitions, initialState, isInitialStateSet,
          buildErr, engines, threads, frames, replaced, cell, diagram,
          applied>>

----------------------------------------------------------------------------
(* Bounds of the model *)

\* The most entries the model lets the transition table grow to.
MaxEntries == 2

\* The most options the model passes to one AddTransition call.
MaxOpts == 3

----------------------------------------------------------------------------
(* The caller's domain *)

\* The caller's states: DoorState, an int type (Closed DoorState = iota, Open).
Closed == 0

Open == 1

States == {Closed, Open}

\* The zero value of the state type S: what a state-typed field holds before
\* it is assigned.
ZeroState == Closed

\* "hooked" is an event value whose type has both BeforeTransition(ctx) and
\* AfterTransition(ctx) (DoorEventWithCallback); "plain" has neither.
Events == {"plain", "hooked"}

\* any(event).(BeforeTransitionEvent) succeeds.
BeforeCapable(e) == e = "hooked"

\* any(event).(AfterTransitionEvent) succeeds.
AfterCapable(e) == e = "hooked"

\* A nil func value. The closures the caller passes are named by strings.
NilFn == "nil"

\* A nil error.
NoError == [kind |-> "nil"]

\* No panic.
NoPanic == [by |-> "none"]

\* The value of panic(...) raised inside the closure or event method fn that
\* ran as hook.
PanicOf(hook, fn) == [by |-> hook, fn |-> fn]

\* The zero value of the event type E (a string type).
ZeroEvent == ""

\* The contexts a caller passes: one that is live (context.Background()), one
\* that has been cancelled, one whose deadline has passed.
Background == "live"

Contexts == {Background, "cancelled", "expired"}

\* Marks a state-typed slot of a call frame that holds nothing yet.
NoState == ZeroState - 1

\* A nil *StateMachine.
NoEngine == [shape |-> "none"]

\* No GenerateDiagram call has been made.
NoDiagram == [called |-> FALSE]

\* No history of the options given to AddTransition is kept.
Unrecorded == [kept |-> FALSE]

\* The history kept of a call AddTransition(from, _, event, opts...).
Recorded(from, event, opts) ==
    [kept |-> TRUE, from |-> from, event |-> event, opts |-> opts]

\* The engine variables of the caller.
Slots == {1}

ThreadIds == {1, 2}

HookKinds == {"before", "after", "evBefore", "evAfter"}

----------------------------------------------------------------------------
(* Error values *)

\* fmt.Errorf(msg): an error that is only its text.
ErrorString(msg) == [kind |-> "errorString", Msg |-> msg]

\* &StateError[S]{Msg: msg}: State is left at the zero value.
StateError(msg) == [kind |-> "StateError", State |-> ZeroState, Msg |-> msg]

MsgNoStates == "state machine must have at least one state"

MsgInitialNotSet == "initial state must be set"

MsgInitialInvalid == "initial state must be a valid state"

MsgNoValidTransition == "no valid transition for current state and given event"

----------------------------------------------------------------------------
(* Builder *)

\* transition{from, to, event}: the optional fields start nil. The stateful
\* struct has no before/after fields.
NewTransition(m, from, to, event) ==
    IF m = "stateless"
    THEN [from |-> from, to |-> to, event |-> event,
          guard |-> NilFn, before |-> NilFn, after |-> NilFn]
    ELSE [from |-> from, to |-> to, event |-> event, guard |-> NilFn]

\* The options: each is a function that stores its closure in one field.
WithGuard(guard) == [field |-> "guard", fn |-> guard]

WithBefore(callback) == [field |-> "before", fn |-> callback]

WithAfter(callback) == [field |-> "after", fn |-> callback]

\* ApplyOpts that leaves a field alone once an option has set it.
RECURSIVE ApplyOpts_FirstWins(_, _, _)
ApplyOpts_FirstWins(t, opts, i) ==
    IF i > Len(opts) THEN t
    ELSE ApplyOpts_FirstWins(
             IF t[opts[i].field] = NilFn
             THEN [t EXCEPT ![opts[i].field] = opts[i].fn] ELSE t,
             opts, i + 1)

\* for _, opt := range opts { opt(&t) }, from option i on.
RECURSIVE ApplyOpts(_, _, _)
ApplyOpts(t, opts, i) ==
    IF i > Len(opts) THEN t
    ELSE ApplyOpts([t EXCEPT ![opts[i].field] = opts[i].fn], opts, i + 1)

\* The option lists the model passes to AddTransition. The stateful package
\* only has WithGuard.
OptionLists(m) ==
    IF m = "stateless"
    THEN {<<>>,
          <<WithGuard("g1")>>,
          <<WithBefore("b1"), WithAfter("a1")>>,
          <<WithGuard("g2"), WithBefore("b2"), WithAfter("a2")>>}
    ELSE {<<>>, <<WithGuard("g1")>>, <<WithGuard("g2")>>}

\* The options a caller of package m can write, two closures of each kind.
Options(m) ==
    IF m = "stateless"
    THEN {WithGuard("g1"), WithGuard("g2"), WithBefore("b1"), WithBefore("b2"),
          WithAfter("a1"), WithAfter("a2")}
    ELSE {WithGuard("g1"), WithGuard("g2")}

\* Every argument list opts... of at most n options of package m.
RECURSIVE OptionSeqs(_, _)
OptionSeqs(m, n) ==
    IF n = 0 THEN {<<>>}
    ELSE LET shorter == OptionSeqs(m, n - 1) IN
         shorter \cup {Append(opts, o) : opts \in shorter, o \in Options(m)}

\* The table holds an entry for (c, e).
HasEntry(trans, c, e) == c \in DOMAIN trans /\ e \in DOMAIN trans[c]

\* The entries of the inner maps of the states cs, counted.
RECURSIVE CountOver(_, _)
CountOver(trans, cs) ==
    IF cs = {} THEN 0
    ELSE LET c == CHOOSE x \in cs : TRUE
         IN Cardinality(DOMAIN trans[c]) + CountOver(trans, cs \ {c})

\* The number of entries of the table.
NumEntries(trans) == CountOver(trans, DOMAIN trans)

\* PutTransition that merges: an entry registered again without a guard keeps
\* the guard it had.
PutTransition_KeepsOldGuard(trans, t) ==
    LET from == t.from
        inner == IF from \in DOMAIN trans THEN trans[from] ELSE <<>>
        t2 == IF t.event \in DOMAIN inner /\ t.guard = NilFn
              THEN [t EXCEPT !.guard = inner[t.event].guard] ELSE t
        inner2 == [e \in (DOMAIN inner) \cup {t.event} |->
                      IF e = t.event THEN t2 ELSE inner[e]]
    IN [s \in (DOMAIN trans) \cup {from} |-> IF s = from THEN inner2 ELSE trans[s]]

\* b.transitions[from][event] = t, creating the inner map when missing.
PutTransition(trans, t) ==
    LET from == t.from
        inner == IF from \in DOMAIN trans THEN trans[from] ELSE <<>>
        inner2 == [e \in (DOMAIN inner) \cup {t.event} |->
                      IF e = t.event THEN t ELSE inner[e]]
    IN [s \in (DOMAIN trans) \cup {from} |-> IF s = from THEN inner2 ELSE trans[s]]

\* BuildError with `len(b.states) <= 1` for the emptiness test.
BuildError_OffByOne(m, sts, isSet, init) ==
    IF m = "stateless"
    THEN IF Cardinality(sts) <= 1 THEN StateError(MsgNoStates) ELSE NoError
    ELSE IF Cardinality(sts) <= 1 THEN ErrorString(MsgNoStates)
         ELSE IF ~isSet THEN ErrorString(MsgInitialNotSet)
         ELSE IF init \notin sts THEN ErrorString(MsgInitialInvalid)
         ELSE NoError

\* BuildError that takes a zero-valued initialState for "not set" instead of
\* reading the isInitialStateSet flag.
BuildError_ZeroSentinel(m, sts, isSet, init) ==
    IF m = "stateless"
    THEN IF Cardinality(sts) = 0 THEN StateError(MsgNoStates) ELSE NoError
    ELSE IF Cardinality(sts) = 0 THEN ErrorString(MsgNoStates)
         ELSE IF init = ZeroState THEN ErrorString(MsgInitialNotSet)
         ELSE IF init \notin sts THEN ErrorString(MsgInitialInvalid)
         ELSE NoError

\* BuildError without the membership test on the initial state.
BuildError_NoMembership(m, sts, isSet, init) ==
    IF m = "stateless"
    THEN IF Cardinality(sts) = 0 THEN StateError(MsgNoStates) ELSE NoError
    ELSE IF Cardinality(sts) = 0 THEN ErrorString(MsgNoStates)
         ELSE IF ~isSet THEN ErrorString(MsgInitialNotSet)
         ELSE NoError

\* The error Build returns (NoError: success).
BuildError(m, sts, isSet, init) ==
    IF m = "stateless"
    THEN IF Cardinality(sts) = 0 THEN StateError(MsgNoStates) ELSE NoError
    ELSE IF Cardinality(sts) = 0 THEN ErrorString(MsgNoStates)
         ELSE IF ~isSet THEN ErrorString(MsgInitialNotSet)
         ELSE IF init \notin sts THEN ErrorString(MsgInitialInvalid)
         ELSE NoError

\* The zero value of sync.RWMutex.
Unlocked == [writer |-> 0, readers |-> 0]

\* NewStateMachine that leaves currentState at the zero value.
NewStateMachine_ZeroCell(m, init) ==
    IF m = "stateless"
    THEN [shape |-> "stateless"]
    ELSE [shape |-> "stateful", currentState |-> ZeroState, mu |-> Unlocked]

\* &StateMachine{states: b.states, transitions: b.transitions, ...}: the two
\* maps are the builder's own maps (Go maps are references), so the engine's
\* table and state set are the variables transitions and states.
NewStateMachine(m, init) ==
    IF m = "stateless"
    THEN [shape |-> "stateless"]
    ELSE [shape |-> "stateful", currentState |-> init, mu |-> Unlocked]

\* The transitions field of the engine in variable k: Build stores b.transitions
\* itself, a reference to the builder's map, so reading the field reads the
\* builder's table as it is now.
EngineTable(k) == transitions

\* The states field of the engine in variable k: likewise b.states itself.
EngineStates(k) == states

\* No Trigger call is in progress (the caller is between calls).
Quiescent == \A th \in ThreadIds : frames[th].pc \in {"idle", "returned"}

\* A goroutine that has not called Trigger. caller is the call whose guard or
\* hook made this call (0: the call comes from a goroutine's own code); hook
\* is the position at which this call's guard or hook is inside a call of
\* its own; panic is the panic the call is unwinding with, or ended with.
IdleFrame ==
    [op |-> "none", pc |-> "idle", eng |-> 0, ctx |-> Background,
     event |-> ZeroEvent, arg |-> NoState,
     pre |-> NoState, from |-> NoState, t |-> NewTransition(mode, ZeroState, ZeroState, ZeroEvent),
     ret |-> NoState, err |-> NoError, log |-> <<>>,
     caller |-> 0, hook |-> "none", panic |-> NoPanic]

\* The frames once the caller has gone on to a builder call: the results of
\* its earlier Trigger calls are no longer at hand.
Forgotten == [th \in ThreadIds |-> IdleFrame]

AddState(s) ==
    /\ Quiescent
    /\ states' = states \cup {s}
    /\ frames' = Forgotten
    /\ UNCHANGED <<replaced, cell, diagram, applied>>
    /\ UNCHANGED <<mode, transitions, initialState, isInitialStateSet,
                   buildErr, engines, threads>>

SetInitialState(s) ==
    /\ Quiescent
    /\ mode = "stateful"
    /\ initialState' = s
    /\ isInitialStateSet' = TRUE
    /\ frames' = Forgotten
    /\ UNCHANGED <<replaced, cell, diagram, applied>>
    /\ UNCHANGED <<mode, states, transitions, buildErr, engines, threads>>

\* The table AddTransition(from, to, event, opts...) leaves: a fresh transition
\* with the options applied in turn, stored under (from, event).
Registered(trans, m, from, to, event, opts) ==
    PutTransition(trans, ApplyOpts(NewTransition(m, from, to, event), opts, 1))

\* AddTransition that only registers transitions between registered states.
AddTransition_OnlyRegistered(from, to, event, opts) ==
    /\ Quiescent
    /\ from \in states /\ to \in states
    /\ HasEntry(transitions, from, event) \/ NumEntries(transitions) < MaxEntries
    /\ transitions' = Registered(transitions, mode, from, to, event, opts)
    /\ replaced' = IF replaced = "untracked" THEN "untracked"
                   ELSE IF HasEntry(transitions, from, event)
                        THEN transitions[from][event].guard ELSE "none"
    /\ frames' = Forgotten
    /\ applied' = IF applied.kept THEN Recorded(from, event, opts) ELSE applied
    /\ UNCHANGED <<cell, diagram>>
    /\ UNCHANGED <<mode, states, initialState, isInitialStateSet,
                   buildErr, engines, threads>>

\* Every table a builder of package m can hold after at most n AddTransition
\* calls.
RECURSIVE TablesUpTo(_, _)
TablesUpTo(m, n) ==
    IF n = 0 THEN {<<>>}
    ELSE LET prev == TablesUpTo(m, n - 1) IN
         prev \cup
         {Registered(trans, m, from, to, event, opts) :
             trans \in {p \in prev : NumEntries(p) < MaxEntries},
             from \in States, to \in States, event \in Events,
             opts \in OptionLists(m)}

AddTransition(from, to, event, opts) ==
    /\ Quiescent
    /\ HasEntry(transitions, from, event) \/ NumEntries(transitions) < MaxEntries
    /\ transitions' = Registered(transitions, mode, from, to, event, opts)
    /\ replaced' = IF replaced = "untracked" THEN "untracked"
                   ELSE IF HasEntry(transitions, from, event)
                        THEN transitions[from][event].guard ELSE "none"
    /\ frames' = Forgotten
    /\ applied' = IF applied.kept THEN Recorded(from, event, opts) ELSE applied
    /\ UNCHANGED <<cell, diagram>>
    /\ UNCHANGED <<mode, states, initialState, isInitialStateSet,
                   buildErr, engines, threads>>

\* Build that uses the builder up: a successful Build clears the designation
\* of the initial state.
Build_ConsumesBuilder(k) ==
    /\ \A th \in ThreadIds : frames[th].pc \in {"idle", "returned"}
    /\ LET err == BuildError(mode, states, isInitialStateSet, initialState)
       IN /\ buildErr' = err
          /\ engines' = IF err = NoError
                        THEN [engines EXCEPT ![k] = NewStateMachine(mode, initialState)]
                        ELSE engines
          /\ isInitialStateSet' = (isInitialStateSet /\ err # NoError)
    /\ frames' = [th \in ThreadIds |-> IdleFrame]
    /\ UNCHANGED <<replaced, cell, diagram, applied>>
    /\ UNCHANGED <<mode, threads, states, transitions, initialState>>

\* sm, err := b.Build(); the caller keeps the engine in its variable k when
\* err is nil.
Build(k) ==
    /\ Quiescent
    /\ LET err == BuildError(mode, states, isInitialStateSet, initialState)
       IN /\ buildErr' = err
          /\ engines' = IF err = NoError
                        THEN [engines EXCEPT ![k] = NewStateMachine(mode, initialState)]
                        ELSE engines
    /\ frames' = Forgotten
    /\ UNCHANGED <<replaced, cell, diagram, applied>>
    /\ UNCHANGED <<mode, threads>>
    /\ UNCHANGED builderVars

----------------------------------------------------------------------------
(* Engine: Trigger *)

\* sm.transitions[currentState][event] with the comma-ok form: a missing
\* outer or inner key gives ok = false and the zero transition.
LookupTransition(m, trans, c, e) ==
    IF c \in DOMAIN trans /\ e \in DOMAIN trans[c]
    THEN [ok |-> TRUE, t |-> trans[c][e]]
    ELSE [ok |-> FALSE, t |-> NewTransition(m, ZeroState, ZeroState, ZeroEvent)]

\* GuardAllows with `t.guard != nil && t.guard(...)`: a transition without a
\* guard is rejected.
GuardAllows_NilRejects(guard, r) == guard # NilFn /\ r

\* t.guard == nil || t.guard(ctx, currentState, t.to, event), where r is what
\* the guard returns when called.
GuardAllows(guard, r) == guard = NilFn \/ r

\* The error for a missing (currentState, event) entry.
NoTransitionErr(m, c, e) ==
    IF m = "stateless"
    THEN [kind |-> "NoTransitionError", From |-> c, Event |-> e]
    ELSE ErrorString(MsgNoValidTransition)

\* GuardErr with From and To exchanged.
GuardErr_Swapped(m, c, t, e) ==
    IF m = "stateless"
    THEN [kind |-> "GuardError", From |-> t.to, To |-> c, Event |-> e]
    ELSE ErrorString(MsgNoValidTransition)

\* The error for a guard that returned false.
GuardErr(m, c, t, e) ==
    IF m = "stateless"
    THEN [kind |-> "GuardError", From |-> c, To |-> t.to, Event |-> e]
    ELSE ErrorString(MsgNoValidTransition)

\* RejectedState with `return t.to, err`.
RejectedState_Target(c, t) == t.to

\* The state a rejected stateless Trigger returns beside the error.
RejectedState(c, t) == c

\* Trigger as a whole, run alone: the state it leaves (stateful: the cell;
\* stateless: the returned state) and its error, for a call in state c with
\* event e whose guard, if called, returns r.
TriggerResult(m, trans, c, e, r) ==
    LET l == LookupTransition(m, trans, c, e) IN
    IF ~l.ok
    THEN [state |-> IF m = "stateless" THEN RejectedState(c, l.t) ELSE c,
          err |-> NoTransitionErr(m, c, e)]
    ELSE IF GuardAllows(l.t.guard, r)
    THEN [state |-> l.t.to, err |-> NoError]
    ELSE [state |-> IF m = "stateless" THEN RejectedState(c, l.t) ELSE c,
          err |-> GuardErr(m, c, l.t, e)]

\* TriggerSteps with the Unlock ahead of the after hook.
TriggerSteps_UnlockBeforeAfter(m) ==
    IF m = "stateless"
    THEN <<"lookup", "guard", "before", "commit", "after">>
    ELSE <<"lock", "lookup", "guard", "before", "commit", "unlock", "after">>

\* TriggerSteps with the table lookup, and its read of sm.currentState,
\* ahead of sm.mu.Lock().
TriggerSteps_LookupBeforeLock(m) ==
    IF m = "stateless"
    THEN <<"lookup", "guard", "before", "commit", "after">>
    ELSE <<"lookup", "lock", "guard", "before", "commit", "after", "unlock">>

\* TriggerSteps with the commit moved ahead of the guard check.
TriggerSteps_CommitBeforeGuard(m) ==
    IF m = "stateless"
    THEN <<"lookup", "commit", "guard", "before", "after">>
    ELSE <<"lock", "lookup", "commit", "guard", "before", "after", "unlock">>

\* TriggerSteps with the commit moved ahead of the before hook.
TriggerSteps_CommitBeforeHook(m) ==
    IF m = "stateless"
    THEN <<"lookup", "guard", "commit", "before", "after">>
    ELSE <<"lock", "lookup", "guard", "commit", "before", "after", "unlock">>

\* The positions of one Trigger call, in program order. "commit" is the
\* assignment sm.currentState = t.to (stateful) or the evaluation of the
\* result in `return t.to, nil` (stateless, where the after callback is
\* deferred and so runs once the result is set).
TriggerSteps(m) ==
    IF m = "stateless"
    THEN <<"lookup", "guard", "before", "commit", "after">>
    ELSE <<"lock", "lookup", "guard", "before", "commit", "after", "unlock">>

\* The position that follows pc; "returned" after the last one.
NextPc(m, pc) ==
    LET steps == TriggerSteps(m)
        i == CHOOSE k \in 1..Len(steps) : steps[k] = pc
    IN IF i = Len(steps) THEN "returned" ELSE steps[i + 1]

\* Where a rejected Trigger goes: the deferred Unlock (stateful) or straight
\* back to the caller.
RejectPc(m) == IF m = "stateless" THEN "returned" ELSE "unlock"

\* GetCurrentState: the cell of the engine in variable k (read under the
\* shared lock).
GetCurrentState(k) == engines[k].currentState

\* What caller code would see of the commit at this moment: the state cell
\* (stateful) or the result slot (stateless).
Cell(f) == IF mode = "stateless" THEN f.ret ELSE engines[f.eng].currentState

\* One observed call of caller-supplied code: which closure (or event method)
\* ran, with which arguments, what Cell held at that moment, and what the
\* call returned.
Observed(hook, fn, f, result) ==
    [hook |-> hook, fn |-> fn, ctx |-> f.ctx, from |-> f.from, to |-> f.t.to,
     event |-> f.event, obs |-> Cell(f), result |-> result, panicked |-> FALSE]

\* The caller starts Trigger on the engine in variable k (stateless: with
\* current state c).
CallWithContext(th, k, ctx, e, c) ==
    /\ frames[th].pc \in {"idle", "returned"}
    /\ engines[k] # NoEngine
    /\ frames' = [frames EXCEPT ![th] =
          [IdleFrame EXCEPT !.op = "Trigger", !.pc = TriggerSteps(mode)[1],
              !.eng = k, !.ctx = ctx, !.event = e,
              !.arg = IF mode = "stateless" THEN c ELSE NoState,
              !.pre = IF mode = "stateless" THEN c ELSE engines[k].currentState]]
    /\ UNCHANGED <<replaced, cell, diagram, applied>>
    /\ UNCHANGED <<mode, buildErr, engines, threads>>
    /\ UNCHANGED builderVars

\* sm.Trigger(context.Background(), ...).
Call(th, k, e, c) == CallWithContext(th, k, Background, e, c)

\* `go sm.Trigger(ctx, e)`: a goroutine that makes one Trigger call.
GoTrigger(th, k, e, c) ==
    /\ frames[th].pc = "idle"
    /\ Call(th, k, e, c)

\* AcquireLock that does not wait for the lock to be free.
AcquireLock_NoWait(th) ==
    LET f == frames[th] IN
    /\ f.pc = "lock"
    /\ engines' = [engines EXCEPT ![f.eng].mu.writer = th]
    /\ frames' = [frames EXCEPT ![th].pc = NextPc(mode, "lock")]
    /\ UNCHANGED <<replaced, cell, diagram, applied>>
    /\ UNCHANGED <<mode, buildErr, threads>>
    /\ UNCHANGED builderVars

\* AcquireLock of a re-entrant lock: a call made from inside the guard or a
\* hook of the call that holds the lock gets it too.
AcquireLock_Reentrant(th) ==
    LET f == frames[th] IN
    /\ f.pc = "lock"
    /\ \/ engines[f.eng].mu = Unlocked
       \/ f.caller # 0 /\ engines[f.eng].mu.writer = f.caller
    /\ engines' = [engines EXCEPT ![f.eng].mu.writer = th]
    /\ frames' = [frames EXCEPT ![th].pc = NextPc(mode, "lock")]
    /\ UNCHANGED <<replaced, cell, diagram, applied>>
    /\ UNCHANGED <<mode, buildErr, threads>>
    /\ UNCHANGED builderVars

\* sm.mu.Lock()
AcquireLock(th) ==
    LET f == frames[th] IN
    /\ f.pc = "lock"
    /\ engines[f.eng].mu = Unlocked
    /\ engines' = [engines EXCEPT ![f.eng].mu.writer = th]
    /\ frames' = [frames EXCEPT ![th].pc = NextPc(mode, "lock")]
    /\ UNCHANGED <<replaced, cell, diagram, applied>>
    /\ UNCHANGED <<mode, buildErr, threads>>
    /\ UNCHANGED builderVars

\* LookupStep of a Trigger that first looks at ctx.Err() and gives up when
\* the context is done.
LookupStep_ChecksContext(th) ==
    LET f == frames[th]
        c == IF mode = "stateless" THEN f.arg ELSE engines[f.eng].currentState
        r == LookupTransition(mode, EngineTable(f.eng), c, f.event)
    IN
    /\ f.pc = "lookup"
    /\ frames' = [frames EXCEPT ![th] =
          IF r.ok /\ f.ctx = Background
          THEN [f EXCEPT !.pc = NextPc(mode, "lookup"), !.from = c, !.t = r.t]
          ELSE [f EXCEPT !.pc = RejectPc(mode), !.from = c, !.t = r.t,
                         !.err = NoTransitionErr(mode, c, f.event),
                         !.ret = IF mode = "stateless" THEN RejectedState(c, r.t)
                                 ELSE NoState]]
    /\ UNCHANGED <<replaced, cell, diagram, applied>>
    /\ UNCHANGED <<mode, buildErr, engines, threads>>
    /\ UNCHANGED builderVars

\* The table lookup for (current state, event).
LookupStep(th) ==
    LET f == frames[th]
        c == IF mode = "stateless" THEN f.arg ELSE engines[f.eng].currentState
        r == LookupTransition(mode, EngineTable(f.eng), c, f.event)
    IN
    /\ f.pc = "lookup"
    /\ frames' = [frames EXCEPT ![th] =
          IF r.ok
          THEN [f EXCEPT !.pc = NextPc(mode, "lookup"), !.from = c, !.t = r.t]
          ELSE [f EXCEPT !.pc = RejectPc(mode), !.from = c, !.t = r.t,
                         !.err = NoTransitionErr(mode, c, f.event),
                         !.ret = IF mode = "stateless" THEN RejectedState(c, r.t)
                                 ELSE NoState]]
    /\ UNCHANGED <<replaced, cell, diagram, applied>>
    /\ UNCHANGED <<mode, buildErr, engines, threads>>
    /\ UNCHANGED builderVars

\* GuardStep that calls a non-nil guard a second time after it has allowed
\* the transition.
GuardStep_CallsTwice(th, r) ==
    LET f == frames[th]
        called == f.t.guard # NilFn
        once == Append(f.log, Observed("guard", f.t.guard, f, r))
        log2 == IF ~called THEN f.log
                ELSE IF r THEN Append(once, Observed("guard", f.t.guard, f, r))
                ELSE once
    IN
    /\ f.pc = "guard"
    /\ called \/ r
    /\ frames' = [frames EXCEPT ![th] =
          IF GuardAllows(f.t.guard, r)
          THEN [f EXCEPT !.pc = NextPc(mode, "guard"), !.log = log2]
          ELSE [f EXCEPT !.pc = RejectPc(mode), !.log = log2,
                         !.err = GuardErr(mode, f.from, f.t, f.event),
                         !.ret = IF mode = "stateless" THEN RejectedState(f.from, f.t)
                                 ELSE NoState]]
    /\ UNCHANGED <<replaced, cell, diagram, applied>>
    /\ UNCHANGED <<mode, buildErr, engines, threads>>
    /\ UNCHANGED builderVars

\* The guard check; a non-nil guard is called and returns r.
GuardStep(th, r) ==
    LET f == frames[th]
        called == f.t.guard # NilFn
        log2 == IF called
                THEN Append(f.log, Observed("guard", f.t.guard, f, r))
                ELSE f.log
    IN
    /\ f.pc = "guard"
    /\ called \/ r
    /\ frames' = [frames EXCEPT ![th] =
          IF GuardAllows(f.t.guard, r)
          THEN [f EXCEPT !.pc = NextPc(mode, "guard"), !.log = log2]
          ELSE [f EXCEPT !.pc = RejectPc(mode), !.log = log2,
                         !.err = GuardErr(mode, f.from, f.t, f.event),
                         !.ret = IF mode = "stateless" THEN RejectedState(f.from, f.t)
                                 ELSE NoState]]
    /\ UNCHANGED <<replaced, cell, diagram, applied>>
    /\ UNCHANGED <<mode, buildErr, engines, threads>>
    /\ UNCHANGED builderVars

\* The hooks Trigger runs before the commit: the transition's before callback
\* (stateless), the event's BeforeTransition (stateful).
BeforeHooks(m, t, e) ==
    IF m = "stateless"
    THEN IF t.before # NilFn THEN <<[hook |-> "before", fn |-> t.before]>> ELSE <<>>
    ELSE IF BeforeCapable(e) THEN <<[hook |-> "evBefore", fn |-> e]>> ELSE <<>>

\* The hooks Trigger runs after the commit.
AfterHooks(m, t, e) ==
    IF m = "stateless"
    THEN IF t.after # NilFn THEN <<[hook |-> "after", fn |-> t.after]>> ELSE <<>>
    ELSE IF AfterCapable(e) THEN <<[hook |-> "evAfter", fn |-> e]>> ELSE <<>>

\* Call every hook of hs in turn, from hook i on, recording each call.
RECURSIVE RunHooks(_, _, _, _)
RunHooks(log, hs, f, i) ==
    IF i > Len(hs) THEN log
    ELSE RunHooks(Append(log, Observed(hs[i].hook, hs[i].fn, f, TRUE)), hs, f, i + 1)

BeforeStep(th) ==
    LET f == frames[th]
        hs == BeforeHooks(mode, f.t, f.event)
    IN
    /\ f.pc = "before"
    /\ frames' = [frames EXCEPT ![th] =
          [f EXCEPT !.pc = NextPc(mode, "before"), !.log = RunHooks(f.log, hs, f, 1)]]
    /\ UNCHANGED <<replaced, cell, diagram, applied>>
    /\ UNCHANGED <<mode, buildErr, engines, threads>>
    /\ UNCHANGED builderVars

\* CommitStep with the stateless result kept in one slot that all calls on
\* the engine share, instead of in each call's own return value.
CommitStep_SharedResult(th) ==
    LET f == frames[th] IN
    /\ f.pc = "commit"
    /\ IF mode = "stateless"
       THEN /\ frames' = [x \in ThreadIds |->
                   IF x = th
                   THEN [f EXCEPT !.pc = NextPc(mode, "commit"), !.ret = f.t.to]
                   ELSE IF frames[x].pc = "idle" THEN frames[x]
                   ELSE [frames[x] EXCEPT !.ret = f.t.to]]
            /\ UNCHANGED engines
       ELSE /\ frames' = [frames EXCEPT ![th].pc = NextPc(mode, "commit")]
            /\ engines' = [engines EXCEPT ![f.eng].currentState = f.t.to]
    /\ UNCHANGED <<replaced, cell, diagram, applied>>
    /\ UNCHANGED <<mode, buildErr, threads>>
    /\ UNCHANGED builderVars

\* sm.currentState = t.to (stateful); the result of `return t.to, nil` (stateless).
CommitStep(th) ==
    LET f == frames[th] IN
    /\ f.pc = "commit"
    /\ IF mode = "stateless"
       THEN /\ frames' = [frames EXCEPT ![th] =
                   [f EXCEPT !.pc = NextPc(mode, "commit"), !.ret = f.t.to]]
            /\ UNCHANGED engines
       ELSE /\ frames' = [frames EXCEPT ![th].pc = NextPc(mode, "commit")]
            /\ engines' = [engines EXCEPT ![f.eng].currentState = f.t.to]
    /\ UNCHANGED <<replaced, cell, diagram, applied>>
    /\ UNCHANGED <<mode, buildErr, threads>>
    /\ UNCHANGED builderVars

AfterStep(th) ==
    LET f == frames[th]
        hs == AfterHooks(mode, f.t, f.event)
    IN
    /\ f.pc = "after"
    /\ frames' = [frames EXCEPT ![th] =
          [f EXCEPT !.pc = NextPc(mode, "after"), !.log = RunHooks(f.log, hs, f, 1)]]
    /\ UNCHANGED <<replaced, cell, diagram, applied>>
    /\ UNCHANGED <<mode, buildErr, engines, threads>>
    /\ UNCHANGED builderVars

\* One call of caller-supplied code that did not return but panicked.
Panicked(hook, fn, f) == [Observed(hook, fn, f, FALSE) EXCEPT !.panicked = TRUE]

\* The guard panics: Trigger is left at once, running what it has deferred
\* (stateful: sm.mu.Unlock(); stateless: nothing yet).
GuardPanics(th) ==
    LET f == frames[th] IN
    /\ f.pc = "guard"
    /\ f.t.guard # NilFn
    /\ frames' = [frames EXCEPT ![th] =
          [f EXCEPT !.pc = RejectPc(mode),
                    !.log = Append(f.log, Panicked("guard", f.t.guard, f)),
                    !.panic = PanicOf("guard", f.t.guard)]]
    /\ UNCHANGED <<replaced, cell, diagram, applied>>
    /\ UNCHANGED <<mode, buildErr, engines, threads>>
    /\ UNCHANGED builderVars

\* The hook that runs before the commit panics; in the stateless Trigger the
\* after callback has not been deferred yet.
BeforePanics(th) ==
    LET f == frames[th]
        hs == BeforeHooks(mode, f.t, f.event)
    IN
    /\ f.pc = "before"
    /\ hs # <<>>
    /\ frames' = [frames EXCEPT ![th] =
          [f EXCEPT !.pc = RejectPc(mode),
                    !.log = Append(f.log, Panicked(hs[1].hook, hs[1].fn, f)),
                    !.panic = PanicOf(hs[1].hook, hs[1].fn)]]
    /\ UNCHANGED <<replaced, cell, diagram, applied>>
    /\ UNCHANGED <<mode, buildErr, engines, threads>>
    /\ UNCHANGED builderVars

\* AfterPanics of a Trigger whose sm.mu.Unlock() is not deferred but stands
\* before `return nil`: the panic leaves Trigger without unlocking.
AfterPanics_UnlockNotDeferred(th) ==
    LET f == frames[th]
        hs == AfterHooks(mode, f.t, f.event)
    IN
    /\ f.pc = "after"
    /\ hs # <<>>
    /\ frames' = [frames EXCEPT ![th] =
          [f EXCEPT !.pc = "returned",
                    !.log = Append(f.log, Panicked(hs[1].hook, hs[1].fn, f)),
                    !.panic = PanicOf(hs[1].hook, hs[1].fn)]]
    /\ UNCHANGED <<replaced, cell, diagram, applied>>
    /\ UNCHANGED <<mode, buildErr, engines, threads>>
    /\ UNCHANGED builderVars

\* The hook that runs after the commit panics: the deferred sm.mu.Unlock()
\* runs next (stateful); the stateless Trigger has nothing else deferred.
AfterPanics(th) ==
    LET f == frames[th]
        hs == AfterHooks(mode, f.t, f.event)
    IN
    /\ f.pc = "after"
    /\ hs # <<>>
    /\ frames' = [frames EXCEPT ![th] =
          [f EXCEPT !.pc = RejectPc(mode),
                    !.log = Append(f.log, Panicked(hs[1].hook, hs[1].fn, f)),
                    !.panic = PanicOf(hs[1].hook, hs[1].fn)]]
    /\ UNCHANGED <<replaced, cell, diagram, applied>>
    /\ UNCHANGED <<mode, buildErr, engines, threads>>
    /\ UNCHANGED builderVars

\* ReleaseLock of a Trigger that returns without sm.mu.Unlock().
ReleaseLock_KeepsLock(th) ==
    LET f == frames[th] IN
    /\ f.pc = "unlock"
    /\ frames' = [frames EXCEPT ![th].pc = NextPc(mode, "unlock")]
    /\ UNCHANGED <<replaced, cell, diagram, applied>>
    /\ UNCHANGED <<mode, buildErr, engines, threads>>
    /\ UNCHANGED builderVars

\* defer sm.mu.Unlock(): runs on every way out of Trigger.
ReleaseLock(th) ==
    LET f == frames[th] IN
    /\ f.pc = "unlock"
    /\ engines' = [engines EXCEPT ![f.eng].mu.writer = 0]
    /\ frames' = [frames EXCEPT ![th].pc = NextPc(mode, "unlock")]
    /\ UNCHANGED <<replaced, cell, diagram, applied>>
    /\ UNCHANGED <<mode, buildErr, threads>>
    /\ UNCHANGED builderVars

\* sm.GetCurrentState() on the engine in variable k, by a goroutine that is
\* in no call.
CallGetCurrentState(th, k) ==
    /\ mode = "stateful"
    /\ frames[th].pc \in {"idle", "returned"}
    /\ engines[k] # NoEngine
    /\ frames' = [frames EXCEPT ![th] =
          [IdleFrame EXCEPT !.op = "GetCurrentState", !.pc = "rlock", !.eng = k]]
    /\ UNCHANGED <<replaced, cell, diagram, applied>>
    /\ UNCHANGED <<mode, buildErr, engines, threads>>
    /\ UNCHANGED builderVars

\* `go sm.GetCurrentState()`: a goroutine that makes one GetCurrentState call
\* on the engine in variable k.
GoGetCurrentState(th, k) ==
    /\ frames[th].pc = "idle"
    /\ CallGetCurrentState(th, k)

\* AcquireRLock that does not wait for the writer to unlock.
AcquireRLock_NoWait(th) ==
    LET f == frames[th] IN
    /\ f.pc = "rlock"
    /\ engines' = [engines EXCEPT ![f.eng].mu.readers = @ + 1]
    /\ frames' = [frames EXCEPT ![th].pc = "read"]
    /\ UNCHANGED <<replaced, cell, diagram, applied>>
    /\ UNCHANGED <<mode, buildErr, threads>>
    /\ UNCHANGED builderVars

\* sm.mu.RLock(): waits while a writer holds the lock; readers share it.
AcquireRLock(th) ==
    LET f == frames[th] IN
    /\ f.pc = "rlock"
    /\ engines[f.eng].mu.writer = 0
    /\ engines' = [engines EXCEPT ![f.eng].mu.readers = @ + 1]
    /\ frames' = [frames EXCEPT ![th].pc = "read"]
    /\ UNCHANGED <<replaced, cell, diagram, applied>>
    /\ UNCHANGED <<mode, buildErr, threads>>
    /\ UNCHANGED builderVars

\* The evaluation of sm.currentState in `return sm.currentState`.
ReadStep(th) ==
    LET f == frames[th] IN
    /\ f.pc = "read"
    /\ frames' = [frames EXCEPT ![th] =
          [f EXCEPT !.pc = "runlock", !.ret = engines[f.eng].currentState]]
    /\ UNCHANGED <<replaced, cell, diagram, applied>>
    /\ UNCHANGED <<mode, buildErr, engines, threads>>
    /\ UNCHANGED builderVars

\* defer sm.mu.RUnlock()
ReleaseRLock(th) ==
    LET f == frames[th] IN
    /\ f.pc = "runlock"
    /\ engines' = [engines EXCEPT ![f.eng].mu.readers = @ - 1]
    /\ frames' = [frames EXCEPT ![th].pc = "returned"]
    /\ UNCHANGED <<replaced, cell, diagram, applied>>
    /\ UNCHANGED <<mode, buildErr, threads>>
    /\ UNCHANGED builderVars

\* Call f stands at a position where caller-supplied code runs: its guard,
\* the event's BeforeTransition (stateless: the before callback) or the
\* event's AfterTransition (stateless: the after callback).
InCallerCode(f) ==
    /\ f.op = "Trigger"
    /\ \/ f.pc = "guard" /\ f.t.guard # NilFn
       \/ f.pc = "before" /\ BeforeHooks(mode, f.t, f.event) # <<>>
       \/ f.pc = "after" /\ AfterHooks(mode, f.t, f.event) # <<>>

\* The guard or hook of call th calls sm.Trigger(ctx, ...) on the engine it
\* runs under, on the same goroutine: the new call takes the call slot n, and
\* call th goes on when it has returned.
HookCallsTrigger(th, n, e, c) ==
    LET f == frames[th] IN
    /\ InCallerCode(f)
    /\ n # th /\ frames[n].pc = "idle"
    /\ frames' = [frames EXCEPT
          ![th] = [f EXCEPT !.pc = "hook", !.hook = f.pc],
          ![n] = [IdleFrame EXCEPT !.op = "Trigger", !.pc = TriggerSteps(mode)[1],
                     !.eng = f.eng, !.ctx = f.ctx, !.event = e, !.caller = th,
                     !.arg = IF mode = "stateless" THEN c ELSE NoState,
                     !.pre = IF mode = "stateless" THEN c
                             ELSE engines[f.eng].currentState]]
    /\ UNCHANGED <<replaced, cell, diagram, applied>>
    /\ UNCHANGED <<mode, buildErr, engines, threads>>
    /\ UNCHANGED builderVars

\* The guard or hook of call th calls sm.GetCurrentState() on the engine it
\* runs under.
HookCallsGetCurrentState(th, n) ==
    LET f == frames[th] IN
    /\ mode = "stateful"
    /\ InCallerCode(f)
    /\ n # th /\ frames[n].pc = "idle"
    /\ frames' = [frames EXCEPT
          ![th] = [f EXCEPT !.pc = "hook", !.hook = f.pc],
          ![n] = [IdleFrame EXCEPT !.op = "GetCurrentState", !.pc = "rlock",
                     !.eng = f.eng, !.caller = th]]
    /\ UNCHANGED <<replaced, cell, diagram, applied>>
    /\ UNCHANGED <<mode, buildErr, engines, threads>>
    /\ UNCHANGED builderVars

\* The call made by the guard or hook of call th has returned: the guard or
\* hook goes on from where it was.
HookResumes(th, n) ==
    LET f == frames[th] IN
    /\ f.pc = "hook"
    /\ frames[n].caller = th /\ frames[n].pc = "returned"
    /\ frames' = [frames EXCEPT
          ![th] = [f EXCEPT !.pc = f.hook, !.hook = "none"],
          ![n] = IdleFrame]
    /\ UNCHANGED <<replaced, cell, diagram, applied>>
    /\ UNCHANGED <<mode, buildErr, engines, threads>>
    /\ UNCHANGED builderVars

----------------------------------------------------------------------------
(* Diagram generation (src/unnamed/part_000) *)

\* DiagramFormat: MermaidFormat and DOTFormat are iota constants;
\* DiagramFormat(999) is the unsupported value the tests pass.
MermaidFormat == 0

DOTFormat == 1

UnsupportedFormat == 999

DiagramFormats == {MermaidFormat, DOTFormat, UnsupportedFormat}

\* A value of a named Go type, as fmt.Sprintf receives it in an interface:
\* its dynamic type and what it holds (an int or a string).
Value(type, v) == [type |-> type, v |-> v]

\* The bytes of the Go string constants the tests and examples use.
Text ==
    [Closed |-> <<67, 108, 111, 115, 101, 100>>,
     Open |-> <<79, 112, 101, 110>>,
     Locked |-> <<76, 111, 99, 107, 101, 100>>,
     OpenDoor |-> <<79, 112, 101, 110, 68, 111, 111, 114>>,
     CloseDoor |-> <<67, 108, 111, 115, 101, 68, 111, 111, 114>>,
     LockDoor |-> <<76, 111, 99, 107, 68, 111, 111, 114>>,
     UnlockDoor |-> <<85, 110, 108, 111, 99, 107, 68, 111, 111, 114>>,
     Play |-> <<80, 108, 97, 121>>,
     Pause |-> <<80, 97, 117, 115, 101>>,
     Stop |-> <<83, 116, 111, 112>>,
     Stopped |-> <<83, 116, 111, 112, 112, 101, 100>>,
     Playing |-> <<80, 108, 97, 121, 105, 110, 103>>,
     Paused |-> <<80, 97, 117, 115, 101, 100>>,
     Ready |-> <<82, 101, 97, 100, 121>>,
     Unknown |-> <<85, 110, 107, 110, 111, 119, 110>>]

\* The states and events diagrams are drawn for, one machine per pair of
\* types: DoorState and DoorEvent as string types (the machine of the diagram
\* tests), DoorState and DoorEvent as int types without a String method,
\* PlayerState (an int type with a String method) with the string type
\* PlayerEvent, and Status, an int type whose String method has a default
\* branch: "Ready" for 0 and "Unknown" for every other value.
DoorStateMinus1 == -1

Locked == 2

DoorState10 == 10

OpenDoor == 0

CloseDoor == 1

DiagramKinds ==
    {[states |-> {Value("DoorState", s) : s \in {"Closed", "Open", "Locked"}},
      events |-> {Value("DoorEvent", e) : e \in {"OpenDoor", "CloseDoor"}}],
     [states |-> {Value("int DoorState", n) : n \in {DoorStateMinus1, Locked, DoorState10}},
      events |-> {Value("int DoorEvent", n) : n \in {OpenDoor, CloseDoor}}],
     [states |-> {Value("PlayerState", n) : n \in 0..2},
      events |-> {Value("PlayerEvent", e) : e \in {"Play", "Stop"}}],
     [states |-> {Value("Status", n) : n \in 0..2},
      events |-> {Value("int DoorEvent", n) : n \in {OpenDoor, CloseDoor}}]}

MsgUnsupportedFormat == "unsupported diagram format"

\* %v of an int: a minus sign if it is negative, then its decimal digits.
RECURSIVE FormatInt(_)
FormatInt(n) ==
    IF n < 0 THEN <<45>> \o FormatInt(-n)
    ELSE IF n < 10 THEN <<48 + n>>
    ELSE Append(FormatInt(n \div 10), 48 + (n % 10))

\* x.String() for the types that have the method. PlayerState indexes an
\* array of three names; outside it the method panics, and fmt prints
\* "%!v(PANIC=String method: runtime error: index out of range [n] with
\* length 3)" (without " with length 3" for a negative n) in its place.
String(x) ==
    IF x.type = "PlayerState"
    THEN IF x.v \in 0..2
         THEN Text[<<"Stopped", "Playing", "Paused">>[x.v + 1]]
         ELSE <<37, 33, 118, 40, 80, 65, 78, 73, 67, 61, 83, 116, 114, 105, 110, 103, 32, 109, 101, 116, 104, 111, 100, 58, 32, 114, 117, 110, 116, 105, 109, 101, 32, 101, 114, 114, 111, 114, 58, 32, 105, 110, 100, 101, 120, 32, 111, 117, 116, 32, 111, 102, 32, 114, 97, 110, 103, 101, 32, 91>> \o FormatInt(x.v)
              \o (IF x.v < 0 THEN <<93, 41>> ELSE <<93, 32, 119, 105, 116, 104, 32, 108, 101, 110, 103, 116, 104, 32, 51, 41>>)
    ELSE IF x.v = 0 THEN Text["Ready"] ELSE Text["Unknown"]

\* fmt.Sprintf("%v", x), as the bytes of the string: the result of String()
\* if x's type has the method, else the string itself for a string type and
\* the signed decimal digits for an int type.
Sprint(x) ==
    IF x.type \in {"PlayerState", "Status"} THEN String(x)
    ELSE IF x.type \in {"DoorState", "DoorEvent", "PlayerEvent"} THEN Text[x.v]
    ELSE FormatInt(x.v)

\* "stateDiagram-v2\n"
MermaidHeader ==
    <<115, 116, 97, 116, 101, 68, 105, 97, 103, 114, 97, 109, 45, 118, 50,
    10>>

\* "    ", the four blanks that start every line
Indent ==
    <<32, 32, 32, 32>>

\* " : [*] ", between the two copies of the current state
MermaidMark ==
    <<32, 58, 32, 91, 42, 93, 32>>

\* "\n"
Newline ==
    <<10>>

\* " --> "
MermaidArrow ==
    <<32, 45, 45, 62, 32>>

\* " : "
MermaidColon ==
    <<32, 58, 32>>

\* "digraph StateMachine {\n"
DOTHeader ==
    <<100, 105, 103, 114, 97, 112, 104, 32, 83, 116, 97, 116, 101, 77, 97,
    99, 104, 105, 110, 101, 32, 123, 10>>

\* One double quote.
Quote ==
    <<34>>

\* " [shape=doublecircle, style=filled, fillcolor=lightblue];\n"
DOTCurrent ==
    <<32, 91, 115, 104, 97, 112, 101, 61, 100, 111, 117, 98, 108, 101, 99,
    105, 114, 99, 108, 101, 44, 32, 115, 116, 121, 108, 101, 61, 102, 105,
    108, 108, 101, 100, 44, 32, 102, 105, 108, 108, 99, 111, 108, 111, 114,
    61, 108, 105, 103, 104, 116, 98, 108, 117, 101, 93, 59, 10>>

\* " [shape=circle];\n"
DOTOther ==
    <<32, 91, 115, 104, 97, 112, 101, 61, 99, 105, 114, 99, 108, 101, 93,
    59, 10>>

\* " -> "
DOTArrow ==
    <<32, 45, 62, 32>>

\* " [label="
DOTLabel ==
    <<32, 91, 108, 97, 98, 101, 108, 61>>

\* "];\n"
DOTEnd ==
    <<93, 59, 10>>

\* "}"
DOTFooter ==
    <<125>>

\* a < b on Go strings: bytewise lexicographic order.
StringLess(a, b) ==
    \E i \in 1..(Len(a) + 1) :
        /\ \A j \in 1..(i - 1) : j <= Len(b) /\ a[j] = b[j]
        /\ IF i > Len(a) THEN i <= Len(b)
           ELSE i <= Len(b) /\ a[i] < b[i]

\* The less function given to sort.Slice: by from, then to, then event.
TransitionLess(x, y) ==
    IF x.from # y.from THEN StringLess(x.from, y.from)
    ELSE IF x.to # y.to THEN StringLess(x.to, y.to)
    ELSE StringLess(x.event, y.event)

\* seq with x put in front of element i.
InsertAt(seq, i, x) == SubSeq(seq, 1, i - 1) \o <<x>> \o SubSeq(seq, i, Len(seq))

\* sort.Strings(seq): the strings in ascending order.
RECURSIVE SortStrings(_)
SortStrings(seq) ==
    IF seq = <<>> THEN <<>>
    ELSE LET rest == SortStrings(Tail(seq))
             x == Head(seq)
             after == {i \in 1..Len(rest) : StringLess(x, rest[i])}
             pos == IF after = {} THEN Len(rest) + 1
                    ELSE CHOOSE i \in after : \A j \in after : i <= j
         IN InsertAt(rest, pos, x)

\* sort.Slice(seq, less) with TransitionLess. The sort is not stable, but
\* elements that compare equal have equal from, to and event, so every
\* order of them is the same slice.
RECURSIVE SortSlice(_)
SortSlice(seq) ==
    IF seq = <<>> THEN <<>>
    ELSE LET rest == SortSlice(Tail(seq))
             x == Head(seq)
             after == {i \in 1..Len(rest) : TransitionLess(x, rest[i])}
             pos == IF after = {} THEN Len(rest) + 1
                    ELSE CHOOSE i \in after : \A j \in after : i <= j
         IN InsertAt(rest, pos, x)

\* The orders in which `for k := range m` can visit the keys S of a map.
RangeOrders(S) ==
    {o \in [1..Cardinality(S) -> S] : \A i, j \in DOMAIN o : i # j => o[i] # o[j]}

\* The orders in which the nested range loops can visit a two-level map:
\* an order of the outer keys and, for each, an order of the inner keys.
MapOrders(m) ==
    LET inners == UNION {RangeOrders(DOMAIN m[c]) : c \in DOMAIN m} IN
    {[outer |-> o, inner |-> inn] :
        o \in RangeOrders(DOMAIN m),
        inn \in {f \in [DOMAIN m -> inners] :
                    \A c \in DOMAIN m : f[c] \in RangeOrders(DOMAIN m[c])}}

\* stringStates: one key fmt.Sprintf("%v", state) per state of sm.states.
StringStates(sts) == {Sprint(s) : s \in sts}

\* The inner loop of the conversion: stringTransitions[fromStr][eventStr] =
\* toStr for the events of one from, from position i of the order evs on.
RECURSIVE ConvertEvents(_, _, _, _)
ConvertEvents(events, evs, i, acc) ==
    IF i > Len(evs) THEN acc
    ELSE ConvertEvents(events, evs, i + 1,
             (Sprint(evs[i]) :> Sprint(events[evs[i]].to)) @@ acc)

\* The outer loop: stringTransitions[fromStr] = make(map[string]string),
\* then the inner loop, from position i of the order ord.outer on.
RECURSIVE StringTransitions(_, _, _, _)
StringTransitions(trans, ord, i, acc) ==
    IF i > Len(ord.outer) THEN acc
    ELSE LET from == ord.outer[i] IN
         StringTransitions(trans, ord, i + 1,
             (Sprint(from) :> ConvertEvents(trans[from], ord.inner[from], 1, <<>>))
                 @@ acc)

\* The loop of Generate that collects transition{from, to, event} from the
\* string maps, ranged in the order ord, from outer position i on.
RECURSIVE CollectTransitions(_, _, _, _)
CollectTransitions(strans, ord, i, acc) ==
    IF i > Len(ord.outer) THEN acc
    ELSE LET from == ord.outer[i]
             evs == ord.inner[from]
         IN CollectTransitions(strans, ord, i + 1,
                acc \o [n \in 1..Len(evs) |->
                           [from |-> from, to |-> strans[from][evs[n]],
                            event |-> evs[n]]])

\* One state line of the Mermaid diagram.
MermaidStateLine(state, currentState) ==
    IF state = currentState
    THEN Indent \o state \o MermaidMark \o state \o Newline
    ELSE Indent \o state \o Newline

\* One transition line of the Mermaid diagram.
MermaidTransitionLine(t) ==
    Indent \o t.from \o MermaidArrow \o t.to \o MermaidColon \o t.event \o Newline

\* One state line of the DOT diagram.
DOTStateLine(state, currentState) ==
    IF state = currentState
    THEN Indent \o Quote \o state \o Quote \o DOTCurrent
    ELSE Indent \o Quote \o state \o Quote \o DOTOther

\* One transition line of the DOT diagram.
DOTTransitionLine(t) ==
    Indent \o Quote \o t.from \o Quote \o DOTArrow \o Quote \o t.to \o Quote
        \o DOTLabel \o Quote \o t.event \o Quote \o DOTEnd

\* sb.WriteString of each line in turn, from line i on.
RECURSIVE WriteLines(_, _, _)
WriteLines(sb, lines, i) ==
    IF i > Len(lines) THEN sb ELSE WriteLines(sb \o lines[i], lines, i + 1)

\* The slices Generate works on: the states as ranged in the order so and
\* sorted, the transitions as ranged in the order to and sorted.
SortedStates(so) == SortStrings(so)

SortedTransitions(strans, to) == SortSlice(CollectTransitions(strans, to, 1, <<>>))

\* MermaidGenerator.Generate, the maps ranged in the orders so and to.
MermaidGenerate(sstates, strans, currentState, so, to) ==
    LET sortedStates == SortedStates(so)
        sortedTransitions == SortedTransitions(strans, to)
        sb1 == WriteLines(MermaidHeader,
                   [i \in 1..Len(sortedStates) |->
                       MermaidStateLine(sortedStates[i], currentState)], 1)
    IN WriteLines(sb1,
           [i \in 1..Len(sortedTransitions) |->
               MermaidTransitionLine(sortedTransitions[i])], 1)

\* DOTGenerator.Generate, the maps ranged in the orders so and to.
DOTGenerate(sstates, strans, currentState, so, to) ==
    LET sortedStates == SortedStates(so)
        sortedTransitions == SortedTransitions(strans, to)
        sb1 == WriteLines(DOTHeader,
                   [i \in 1..Len(sortedStates) |->
                       DOTStateLine(sortedStates[i], currentState)], 1)
        sb2 == WriteLines(sb1,
                   [i \in 1..Len(sortedTransitions) |->
                       DOTTransitionLine(sortedTransitions[i])], 1)
    IN sb2 \o DOTFooter

\* The text GenerateDiagram returns for a supported format when the engine's
\* transitions are ranged in the order conv during the conversion and the
\* string maps in the orders so and to inside Generate.
DiagramText(sts, trans, format, currentState, conv, so, to) ==
    LET stringStates == StringStates(sts)
        stringTransitions == StringTransitions(trans, conv, 1, <<>>)
        currentStateStr == Sprint(currentState)
    IN IF format = MermaidFormat
       THEN MermaidGenerate(stringStates, stringTransitions, currentStateStr, so, to)
       ELSE DOTGenerate(stringStates, stringTransitions, currentStateStr, so, to)

\* GenerateDiagram(sm, format, currentState) on the engine in variable k.
\* Every range over a map visits its keys in an order of the runtime's
\* choosing.
GenerateDiagram(k, format, currentState) ==
    /\ engines[k] # NoEngine
    /\ Quiescent
    /\ IF format \notin {MermaidFormat, DOTFormat}
       THEN diagram' = [called |-> TRUE, eng |-> k, format |-> format,
                        currentState |-> currentState, text |-> <<>>,
                        err |-> ErrorString(MsgUnsupportedFormat)]
       ELSE \E conv \in MapOrders(EngineTable(k)) :
            \E so \in RangeOrders(StringStates(EngineStates(k))) :
            \E to \in MapOrders(StringTransitions(EngineTable(k), conv, 1, <<>>)) :
                diagram' = [called |-> TRUE, eng |-> k, format |-> format,
                            currentState |-> currentState,
                            text |-> DiagramText(EngineStates(k), EngineTable(k), format,
                                                 currentState, conv, so, to),
                            err |-> NoError]
    /\ UNCHANGED <<mode, buildErr, engines, threads, frames, replaced, cell,
                   applied>>
    /\ UNCHANGED builderVars

----------------------------------------------------------------------------
\* NewStateMachineBuilder: empty maps, zero-valued initialState, flag unset;
\* no engine built, one calling goroutine.
Init ==
    /\ mode \in {"stateless", "stateful"}
    /\ states = {}
    /\ transitions = <<>>
    /\ initialState = ZeroState
    /\ isInitialStateSet = FALSE
    /\ buildErr = NoError
    /\ engines = [k \in Slots |-> NoEngine]
    /\ threads = {1}
    /\ frames = [th \in ThreadIds |-> IdleFrame]
    /\ replaced = "untracked"
    /\ cell = NoState
    /\ diagram = NoDiagram
    /\ applied = Unrecorded

Next ==
    \/ \E s \in States : AddState(s)
    \/ \E s \in States : SetInitialState(s)
    \/ \E from \in States, to \in States, event \in Events, opts \in OptionLists(mode) :
          AddTransition(from, to, event, opts)
    \/ \E k \in DOMAIN engines : Build(k)
    \/ \E th \in threads, k \in DOMAIN engines, e \in Events, c \in States :
          Call(th, k, e, c)
    \/ \E th \in threads : AcquireLock(th)
    \/ \E th \in threads : LookupStep(th)
    \/ \E th \in threads, r \in BOOLEAN : GuardStep(th, r)
    \/ \E th \in threads : BeforeStep(th)
    \/ \E th \in threads : CommitStep(th)
    \/ \E th \in threads : AfterStep(th)
    \/ \E th \in threads : ReleaseLock(th)

Spec == Init /\ [][Next]_vars

----------------------------------------------------------------------------
(* Builder only: the caller registers states and transitions, designates
   initial states and builds, without triggering anything. *)

NextBuilder ==
    \/ \E s \in States : AddState(s)
    \/ \E s \in States : SetInitialState(s)
    \/ \E from \in States, to \in States, event \in Events, opts \in OptionLists(mode) :
          AddTransition(from, to, event, opts)
    \/ \E k \in DOMAIN engines : Build(k)

SpecBuilder == Init /\ [][NextBuilder]_vars

----------------------------------------------------------------------------
(* Registration history: a builder whose states are registered (and, in the
   stateful package, with Closed designated as initial state) registers transitions,
   builds and triggers, while the model remembers what the latest
   AddTransition replaced. *)

InitHistory ==
    /\ mode \in {"stateless", "stateful"}
    /\ states = States
    /\ transitions = <<>>
    /\ isInitialStateSet = (mode = "stateful")
    /\ initialState = ZeroState
    /\ buildErr = NoError
    /\ engines = [k \in Slots |-> NoEngine]
    /\ threads = {1}
    /\ frames = [th \in ThreadIds |-> IdleFrame]
    /\ replaced = "none"
    /\ cell = NoState
    /\ diagram = NoDiagram
    /\ applied = Unrecorded

NextRegistered ==
    \/ \E from \in States, to \in States, event \in Events, opts \in OptionLists(mode) :
          AddTransition(from, to, event, opts)
    \/ \E k \in DOMAIN engines : Build(k)
    \/ \E th \in threads, k \in DOMAIN engines, e \in Events, c \in States :
          Call(th, k, e, c)
    \/ \E th \in threads : AcquireLock(th)
    \/ \E th \in threads : LookupStep(th)
    \/ \E th \in threads, r \in BOOLEAN : GuardStep(th, r)
    \/ \E th \in threads : BeforeStep(th)
    \/ \E th \in threads : CommitStep(th)
    \/ \E th \in threads : AfterStep(th)
    \/ \E th \in threads : ReleaseLock(th)

SpecHistory == InitHistory /\ [][NextRegistered]_vars

----------------------------------------------------------------------------
(* Two engines: the caller of a stateful builder has two engine variables and
   builds into either, any number of times. *)

TwoSlots == {1, 2}

InitTwoEngines ==
    /\ mode = "stateful"
    /\ states = States
    /\ transitions = <<>>
    /\ isInitialStateSet = TRUE
    /\ initialState \in States
    /\ buildErr = NoError
    /\ engines = [k \in TwoSlots |-> NoEngine]
    /\ threads = {1}
    /\ frames = [th \in ThreadIds |-> IdleFrame]
    /\ replaced = "untracked"
    /\ cell = NoState
    /\ diagram = NoDiagram
    /\ applied = Unrecorded

SpecTwoEngines == InitTwoEngines /\ [][NextRegistered]_vars

----------------------------------------------------------------------------
(* Concurrent triggers: a stateful engine built from a table of at most
   MaxEntries entries is handed to the goroutines of ThreadIds, each of which
   calls Trigger once. *)

InitLocked ==
    /\ mode = "stateful"
    /\ states = States
    /\ transitions \in TablesUpTo("stateful", MaxEntries)
    /\ isInitialStateSet = TRUE
    /\ initialState \in States
    /\ buildErr = NoError
    /\ engines = [k \in Slots |-> NewStateMachine("stateful", initialState)]
    /\ threads = ThreadIds
    /\ frames = [th \in ThreadIds |-> IdleFrame]
    /\ replaced = "untracked"
    /\ cell = NoState
    /\ diagram = NoDiagram
    /\ applied = Unrecorded

NextTriggers ==
    \/ \E th \in threads, k \in DOMAIN engines, e \in Events, c \in States :
          GoTrigger(th, k, e, c)
    \/ \E th \in threads : AcquireLock(th)
    \/ \E th \in threads : LookupStep(th)
    \/ \E th \in threads, r \in BOOLEAN : GuardStep(th, r)
    \/ \E th \in threads : BeforeStep(th)
    \/ \E th \in threads : CommitStep(th)
    \/ \E th \in threads : AfterStep(th)
    \/ \E th \in threads : ReleaseLock(th)

SpecLocked == InitLocked /\ [][NextTriggers]_vars

----------------------------------------------------------------------------
(* Shared stateless engine: an engine built from a table of at most
   MaxEntries entries is used by the goroutines of ThreadIds without any
   synchronisation, each calling Trigger once with its own current state. *)

InitShared ==
    /\ mode = "stateless"
    /\ states = States
    /\ transitions \in TablesUpTo("stateless", MaxEntries)
    /\ isInitialStateSet = FALSE
    /\ initialState = ZeroState
    /\ buildErr = NoError
    /\ engines = [k \in Slots |-> NewStateMachine("stateless", initialState)]
    /\ threads = ThreadIds
    /\ frames = [th \in ThreadIds |-> IdleFrame]
    /\ replaced = "untracked"
    /\ cell = NoState
    /\ diagram = NoDiagram
    /\ applied = Unrecorded

NextShared ==
    \/ \E th \in threads, k \in DOMAIN engines, e \in Events, c \in States :
          GoTrigger(th, k, e, c)
    \/ \E th \in threads : LookupStep(th)
    \/ \E th \in threads, r \in BOOLEAN : GuardStep(th, r)
    \/ \E th \in threads : BeforeStep(th)
    \/ \E th \in threads : CommitStep(th)
    \/ \E th \in threads : AfterStep(th)

SpecShared == InitShared /\ [][NextShared]_vars

----------------------------------------------------------------------------
(* Two modes side by side: a stateful engine, and a stateless engine built
   from the same registrations whose caller keeps the current state in a cell
   of its own, as MusicPlayer does. Both start in the same initial state and
   are given the same events; a guard, being the same closure called with
   the same arguments, returns the same result to both. *)

\* The table of a stateless builder after the AddTransition calls that gave
\* the stateful builder the table trans: same from, to, event and guard, no
\* before or after callback.
StatelessTwin(trans) ==
    [c \in DOMAIN trans |->
        [e \in DOMAIN trans[c] |->
            ApplyOpts(NewTransition("stateless", c, trans[c][e].to, e),
                      IF trans[c][e].guard = NilFn THEN <<>>
                      ELSE <<WithGuard(trans[c][e].guard)>>, 1)]]

\* MusicPlayer.Trigger without `mp.currentState = nextState`.
WrapperCell_NeverStores(c, res) == c

\* MusicPlayer.Trigger after the engine's call: an error leaves
\* mp.currentState alone, otherwise mp.currentState = nextState.
WrapperCell(c, res) == IF res.err # NoError THEN c ELSE res.state

(* The caller gives one event after another to both, on one goroutine:
   sm.Trigger(ctx, e) on the stateful engine, then mp.Trigger(e) on the
   wrapped stateless engine. frames[1] is the call of the former, frames[2]
   the call the wrapper makes. *)

\* The next event e is taken and sm.Trigger(ctx, e) is called on the stateful
\* engine in variable k; the wrapper has not been called with e yet.
Lockstep(k, e) ==
    /\ engines[k] # NoEngine
    /\ frames[1].pc \in {"idle", "returned"}
    /\ frames[2].pc = frames[1].pc
    /\ frames' = [frames EXCEPT
          ![1] = [IdleFrame EXCEPT !.op = "Trigger", !.pc = TriggerSteps(mode)[1],
                     !.eng = k, !.ctx = Background, !.event = e,
                     !.pre = engines[k].currentState],
          ![2] = IdleFrame]
    /\ UNCHANGED <<replaced, cell, diagram, applied>>
    /\ UNCHANGED <<mode, buildErr, engines, threads>>
    /\ UNCHANGED builderVars

\* mp.Trigger(event), once sm.Trigger has returned, with the same event:
\* currentState := mp.GetCurrentState(), then the call of the stateless
\* Trigger(ctx, currentState, event).
MusicPlayerTrigger ==
    /\ frames[1].pc = "returned"
    /\ frames[2].pc = "idle"
    /\ frames' = [frames EXCEPT ![2] =
          [IdleFrame EXCEPT !.op = "Trigger", !.pc = TriggerSteps("stateless")[1],
              !.eng = frames[1].eng, !.ctx = Background, !.event = frames[1].event,
              !.arg = cell, !.pre = cell]]
    /\ UNCHANGED <<replaced, cell, diagram, applied>>
    /\ UNCHANGED <<mode, buildErr, engines, threads>>
    /\ UNCHANGED builderVars

\* Where the stateless Trigger called by the wrapper goes after pc: back into
\* MusicPlayer.Trigger once it returns.
WrapperPc(pc) == IF pc = "returned" THEN "store" ELSE pc

\* One call of caller-supplied code by the stateless Trigger the wrapper
\* called: what it would see of the commit is the call's result slot.
WrapperObserved(hook, fn, f, result) ==
    [Observed(hook, fn, f, result) EXCEPT !.obs = f.ret]

\* The results the guard of call f has returned to the stateful Trigger of
\* this event when called with the same arguments. The guard is the same
\* closure in both tables and its result is a function of its arguments.
GuardReturned(f) ==
    {frames[1].log[i].result : i \in
        {j \in DOMAIN frames[1].log :
            /\ frames[1].log[j].hook = "guard"
            /\ frames[1].log[j].fn = f.t.guard
            /\ frames[1].log[j].ctx = f.ctx
            /\ frames[1].log[j].from = f.from
            /\ frames[1].log[j].to = f.t.to
            /\ frames[1].log[j].event = f.event}}

\* The table lookup of the stateless Trigger the wrapper called.
WrapperLookupStep ==
    LET f == frames[2]
        c == f.arg
        r == LookupTransition("stateless", StatelessTwin(EngineTable(f.eng)), c, f.event)
    IN
    /\ f.pc = "lookup"
    /\ frames' = [frames EXCEPT ![2] =
          IF r.ok
          THEN [f EXCEPT !.pc = WrapperPc(NextPc("stateless", "lookup")),
                         !.from = c, !.t = r.t]
          ELSE [f EXCEPT !.pc = WrapperPc(RejectPc("stateless")),
                         !.from = c, !.t = r.t,
                         !.err = NoTransitionErr("stateless", c, f.event),
                         !.ret = RejectedState(c, r.t)]]
    /\ UNCHANGED <<replaced, cell, diagram, applied>>
    /\ UNCHANGED <<mode, buildErr, engines, threads>>
    /\ UNCHANGED builderVars

\* Its guard check; a non-nil guard is called and returns r.
WrapperGuardStep(r) ==
    LET f == frames[2]
        called == f.t.guard # NilFn
        log2 == IF called
                THEN Append(f.log, WrapperObserved("guard", f.t.guard, f, r))
                ELSE f.log
    IN
    /\ f.pc = "guard"
    /\ called \/ r
    /\ called /\ GuardReturned(f) # {} => r \in GuardReturned(f)
    /\ frames' = [frames EXCEPT ![2] =
          IF GuardAllows(f.t.guard, r)
          THEN [f EXCEPT !.pc = WrapperPc(NextPc("stateless", "guard")), !.log = log2]
          ELSE [f EXCEPT !.pc = WrapperPc(RejectPc("stateless")), !.log = log2,
                         !.err = GuardErr("stateless", f.from, f.t, f.event),
                         !.ret = RejectedState(f.from, f.t)]]
    /\ UNCHANGED <<replaced, cell, diagram, applied>>
    /\ UNCHANGED <<mode, buildErr, engines, threads>>
    /\ UNCHANGED builderVars

\* Its before callback, its `return t.to, nil` and its deferred after
\* callback, whichever pc stands at.
WrapperHookStep ==
    LET f == frames[2]
        hs == IF f.pc = "before" THEN BeforeHooks("stateless", f.t, f.event)
              ELSE AfterHooks("stateless", f.t, f.event)
    IN
    /\ f.pc \in {"before", "after"}
    /\ frames' = [frames EXCEPT ![2] =
          [f EXCEPT !.pc = WrapperPc(NextPc("stateless", f.pc)),
                    !.log = f.log \o [i \in 1..Len(hs) |->
                                WrapperObserved(hs[i].hook, hs[i].fn, f, TRUE)]]]
    /\ UNCHANGED <<replaced, cell, diagram, applied>>
    /\ UNCHANGED <<mode, buildErr, engines, threads>>
    /\ UNCHANGED builderVars

WrapperCommitStep ==
    LET f == frames[2] IN
    /\ f.pc = "commit"
    /\ frames' = [frames EXCEPT ![2] =
          [f EXCEPT !.pc = WrapperPc(NextPc("stateless", "commit")), !.ret = f.t.to]]
    /\ UNCHANGED <<replaced, cell, diagram, applied>>
    /\ UNCHANGED <<mode, buildErr, engines, threads>>
    /\ UNCHANGED builderVars

\* The rest of MusicPlayer.Trigger: `if err != nil { return err }`, else
\* mp.currentState = nextState.
MusicPlayerStore ==
    LET f == frames[2] IN
    /\ f.pc = "store"
    /\ cell' = WrapperCell(cell, [state |-> f.ret, err |-> f.err])
    /\ frames' = [frames EXCEPT ![2].pc = "returned"]
    /\ UNCHANGED <<replaced, diagram, applied>>
    /\ UNCHANGED <<mode, buildErr, engines, threads>>
    /\ UNCHANGED builderVars

InitLockstep ==
    /\ mode = "stateful"
    /\ states = States
    /\ transitions \in TablesUpTo("stateful", MaxEntries)
    /\ isInitialStateSet = TRUE
    /\ initialState \in States
    /\ buildErr = NoError
    /\ engines = [k \in Slots |-> NewStateMachine("stateful", initialState)]
    /\ threads = {1}
    /\ frames = [th \in ThreadIds |-> IdleFrame]
    /\ replaced = "untracked"
    /\ cell = initialState
    /\ diagram = NoDiagram
    /\ applied = Unrecorded

NextLockstep ==
    \/ \E k \in DOMAIN engines, e \in Events : Lockstep(k, e)
    \/ AcquireLock(1)
    \/ LookupStep(1)
    \/ \E r \in BOOLEAN : GuardStep(1, r)
    \/ BeforeStep(1)
    \/ CommitStep(1)
    \/ AfterStep(1)
    \/ ReleaseLock(1)
    \/ MusicPlayerTrigger
    \/ WrapperLookupStep
    \/ \E r \in BOOLEAN : WrapperGuardStep(r)
    \/ WrapperHookStep
    \/ WrapperCommitStep
    \/ MusicPlayerStore

SpecLockstep == InitLockstep /\ [][NextLockstep]_vars

----------------------------------------------------------------------------
(* Diagrams: an engine built from some of the states of one of DiagramKinds
   and a table of at most MaxEntries transitions between them (registered or not) is drawn in
   every format with every current state. GenerateDiagram reads sm.states
   and sm.transitions only, which both engine shapes have; the stateless
   one is drawn. *)

\* Every table a builder of package m can hold after at most n AddTransition
\* calls without options over the states sts and the events evs.
RECURSIVE TablesOver(_, _, _, _)
TablesOver(m, n, sts, evs) ==
    IF n = 0 THEN {<<>>}
    ELSE LET prev == TablesOver(m, n - 1, sts, evs) IN
         prev \cup
         {Registered(trans, m, from, to, event, <<>>) :
             trans \in {p \in prev : NumEntries(p) < MaxEntries},
             from \in sts, to \in sts, event \in evs}

InitDiagram ==
    /\ mode = "stateless"
    /\ \E kind \in DiagramKinds :
          /\ states \in (SUBSET kind.states) \ {{}}
          /\ transitions \in TablesOver(mode, MaxEntries, kind.states, kind.events)
    /\ isInitialStateSet = FALSE
    /\ initialState = ZeroState
    /\ buildErr = NoError
    /\ engines = [k \in Slots |-> NewStateMachine(mode, initialState)]
    /\ threads = {1}
    /\ frames = [th \in ThreadIds |-> IdleFrame]
    /\ replaced = "untracked"
    /\ cell = NoState
    /\ diagram = NoDiagram
    /\ applied = Unrecorded

\* The caller draws one diagram of the engine it has built; currentState is
\* any value of the state type.
NextDiagram ==
    \E k \in DOMAIN engines, format \in DiagramFormats, kind \in DiagramKinds :
        \E currentState \in kind.states :
            /\ diagram = NoDiagram
            /\ states \subseteq kind.states
            /\ GenerateDiagram(k, format, currentState)

SpecDiagram == InitDiagram /\ [][NextDiagram]_vars

----------------------------------------------------------------------------
(* Readers and writers: each goroutine of ThreadIds makes one call on a
   prebuilt stateful engine, Trigger or GetCurrentState. *)

NextReaders ==
    \/ \E th \in threads, k \in DOMAIN engines, e \in Events, c \in States :
          GoTrigger(th, k, e, c)
    \/ \E th \in threads, k \in DOMAIN engines : GoGetCurrentState(th, k)
    \/ \E th \in threads : AcquireLock(th)
    \/ \E th \in threads : LookupStep(th)
    \/ \E th \in threads, r \in BOOLEAN : GuardStep(th, r)
    \/ \E th \in threads : BeforeStep(th)
    \/ \E th \in threads : CommitStep(th)
    \/ \E th \in threads : AfterStep(th)
    \/ \E th \in threads : ReleaseLock(th)
    \/ \E th \in threads : AcquireRLock(th)
    \/ \E th \in threads : ReadStep(th)
    \/ \E th \in threads : ReleaseRLock(th)

SpecReaders == InitLocked /\ [][NextReaders]_vars

----------------------------------------------------------------------------
(* Options: the caller registers the first transition of a fresh builder,
   from Closed to Open on "plain", with an argument list of up to MaxOpts
   options in which a kind may occur more than once, while the model
   remembers the list. *)

InitOptions ==
    /\ mode \in {"stateless", "stateful"}
    /\ states = States
    /\ transitions = <<>>
    /\ initialState = ZeroState
    /\ isInitialStateSet = FALSE
    /\ buildErr = NoError
    /\ engines = [k \in Slots |-> NoEngine]
    /\ threads = {1}
    /\ frames = [th \in ThreadIds |-> IdleFrame]
    /\ replaced = "untracked"
    /\ cell = NoState
    /\ diagram = NoDiagram
    /\ applied = Recorded(ZeroState, ZeroEvent, <<>>)

NextOptions ==
    /\ transitions = <<>>
    /\ \E opts \in OptionSeqs(mode, MaxOpts) :
          AddTransition(Closed, Open, "plain", opts)

SpecOptions == InitOptions /\ [][NextOptions]_vars

----------------------------------------------------------------------------
(* Contexts: one caller of an engine built from a table of at most
   MaxEntries entries calls Trigger again and again, each time with a context
   that is live, cancelled or past its deadline. *)

InitContexts ==
    /\ mode \in {"stateless", "stateful"}
    /\ states = States
    /\ transitions \in TablesUpTo(mode, MaxEntries)
    /\ isInitialStateSet = (mode = "stateful")
    /\ initialState = ZeroState
    /\ buildErr = NoError
    /\ engines = [k \in Slots |-> NewStateMachine(mode, initialState)]
    /\ threads = {1}
    /\ frames = [th \in ThreadIds |-> IdleFrame]
    /\ replaced = "untracked"
    /\ cell = NoState
    /\ diagram = NoDiagram
    /\ applied = Unrecorded

NextContexts ==
    \/ \E th \in threads, k \in DOMAIN engines, ctx \in Contexts,
          e \in Events, c \in States :
          CallWithContext(th, k, ctx, e, c)
    \/ \E th \in threads : AcquireLock(th)
    \/ \E th \in threads : LookupStep(th)
    \/ \E th \in threads, r \in BOOLEAN : GuardStep(th, r)
    \/ \E th \in threads : BeforeStep(th)
    \/ \E th \in threads : CommitStep(th)
    \/ \E th \in threads : AfterStep(th)
    \/ \E th \in threads : ReleaseLock(th)

SpecContexts == InitContexts /\ [][NextContexts]_vars

----------------------------------------------------------------------------
(* Fair scheduling: the goroutines of ThreadIds call Trigger and
   GetCurrentState on one stateful engine again and again. The Go scheduler
   runs every goroutine that can run, so a step that does not wait is taken
   (weak fairness); guards and hooks return, being single steps. sync.RWMutex
   hands the lock to a goroutine that waits for it once the holders are gone,
   ahead of goroutines that ask later, so a goroutine for which the lock
   becomes free again and again does get it (strong fairness). No goroutine
   is obliged to make a call. The engine's table has one entry or none:
   what the table holds decides which steps a call takes, not whether it
   takes them. *)

InitFair ==
    /\ mode = "stateful"
    /\ states = States
    /\ transitions \in TablesUpTo("stateful", 1)
    /\ isInitialStateSet = TRUE
    /\ initialState \in States
    /\ buildErr = NoError
    /\ engines = [k \in Slots |-> NewStateMachine("stateful", initialState)]
    /\ threads = ThreadIds
    /\ frames = [th \in ThreadIds |-> IdleFrame]
    /\ replaced = "untracked"
    /\ cell = NoState
    /\ diagram = NoDiagram
    /\ applied = Unrecorded

\* The steps of goroutine th inside a call that wait for nothing.
Running(th) ==
    \/ LookupStep(th)
    \/ \E r \in BOOLEAN : GuardStep(th, r)
    \/ BeforeStep(th)
    \/ CommitStep(th)
    \/ AfterStep(th)
    \/ ReleaseLock(th)
    \/ ReadStep(th)
    \/ ReleaseRLock(th)

\* The steps of goroutine th that wait for the lock.
Locking(th) == AcquireLock(th) \/ AcquireRLock(th)

NextFair ==
    \/ \E th \in threads, k \in DOMAIN engines, e \in Events, c \in States :
          Call(th, k, e, c)
    \/ \E th \in threads, k \in DOMAIN engines : CallGetCurrentState(th, k)
    \/ \E th \in threads : AcquireLock(th)
    \/ \E th \in threads : LookupStep(th)
    \/ \E th \in threads, r \in BOOLEAN : GuardStep(th, r)
    \/ \E th \in threads : BeforeStep(th)
    \/ \E th \in threads : CommitStep(th)
    \/ \E th \in threads : AfterStep(th)
    \/ \E th \in threads : ReleaseLock(th)
    \/ \E th \in threads : AcquireRLock(th)
    \/ \E th \in threads : ReadStep(th)
    \/ \E th \in threads : ReleaseRLock(th)

Fairness ==
    \A th \in ThreadIds : WF_vars(Running(th)) /\ SF_vars(Locking(th))

SpecFair == InitFair /\ [][NextFair]_vars /\ Fairness

----------------------------------------------------------------------------
(* Calls from inside guards and hooks: an engine whose table has one entry or
   none is used by two goroutines, each making one Trigger or GetCurrentState
   call; the guard or a hook of a running Trigger may itself call Trigger or
   GetCurrentState on the same engine. There are three call slots: one for
   each goroutine's call and one for a call made from inside a guard or
   hook. *)

CallSlots == {1, 2, 3}

\* The goroutines: their calls take the slots of the same number.
Goroutines == {1, 2}

InitReentrant ==
    /\ mode \in {"stateless", "stateful"}
    /\ states = States
    /\ transitions \in TablesUpTo(mode, 1)
    /\ isInitialStateSet = (mode = "stateful")
    /\ initialState = ZeroState
    /\ buildErr = NoError
    /\ engines = [k \in Slots |-> NewStateMachine(mode, initialState)]
    /\ threads = Goroutines
    /\ frames = [n \in CallSlots |-> IdleFrame]
    /\ replaced = "untracked"
    /\ cell = NoState
    /\ diagram = NoDiagram
    /\ applied = Unrecorded

NextReentrant ==
    \/ \E th \in threads, k \in DOMAIN engines, e \in Events, c \in States :
          GoTrigger(th, k, e, c)
    \/ \E th \in threads, k \in DOMAIN engines : GoGetCurrentState(th, k)
    \/ \E th \in CallSlots, n \in CallSlots \ threads, e \in Events, c \in States :
          HookCallsTrigger(th, n, e, c)
    \/ \E th \in CallSlots, n \in CallSlots \ threads :
          HookCallsGetCurrentState(th, n)
    \/ \E th \in CallSlots, n \in CallSlots : HookResumes(th, n)
    \/ \E th \in CallSlots : AcquireLock(th)
    \/ \E th \in CallSlots : LookupStep(th)
    \/ \E th \in CallSlots, r \in BOOLEAN : GuardStep(th, r)
    \/ \E th \in CallSlots : BeforeStep(th)
    \/ \E th \in CallSlots : CommitStep(th)
    \/ \E th \in CallSlots : AfterStep(th)
    \/ \E th \in CallSlots : ReleaseLock(th)
    \/ \E th \in CallSlots : AcquireRLock(th)
    \/ \E th \in CallSlots : ReadStep(th)
    \/ \E th \in CallSlots : ReleaseRLock(th)

SpecReentrant == InitReentrant /\ [][NextReentrant]_vars

----------------------------------------------------------------------------
(* Panics: two goroutines call Trigger and GetCurrentState again and again on
   a stateful engine whose table has one entry or none; a guard or an event
   hook may panic instead of returning. A goroutine whose Trigger ended in a
   panic recovers and may call again. *)

NextPanics ==
    \/ \E th \in threads, k \in DOMAIN engines, e \in Events, c \in States :
          Call(th, k, e, c)
    \/ \E th \in threads, k \in DOMAIN engines : CallGetCurrentState(th, k)
    \/ \E th \in threads : AcquireLock(th)
    \/ \E th \in threads : LookupStep(th)
    \/ \E th \in threads, r \in BOOLEAN : GuardStep(th, r)
    \/ \E th \in threads : GuardPanics(th)
    \/ \E th \in threads : BeforeStep(th)
    \/ \E th \in threads : BeforePanics(th)
    \/ \E th \in threads : CommitStep(th)
    \/ \E th \in threads : AfterStep(th)
    \/ \E th \in threads : AfterPanics(th)
    \/ \E th \in threads : ReleaseLock(th)
    \/ \E th \in threads : AcquireRLock(th)
    \/ \E th \in threads : ReadStep(th)
    \/ \E th \in threads : ReleaseRLock(th)

SpecPanics == InitFair /\ [][NextPanics]_vars

----------------------------------------------------------------------------
(* Properties *)

\* The positions in a call's log at which caller code of the given kinds ran.
LogAt(f, kinds) == {k \in 1..Len(f.log) : f.log[k].hook \in kinds}

\* The hook kinds that transition t and event e carry: the transition's
\* before/after callbacks and the event's BeforeTransition/AfterTransition.
AttachedKinds(t, e) ==
    {k \in HookKinds :
        \/ k = "before" /\ "before" \in DOMAIN t /\ t.before # NilFn
        \/ k = "after" /\ "after" \in DOMAIN t /\ t.after # NilFn
        \/ k = "evBefore" /\ BeforeCapable(e)
        \/ k = "evAfter" /\ AfterCapable(e)}

\* C1: a rejected Trigger never changes the state. Stateful: once Trigger has
\* returned an error, GetCurrentState gives the state the engine was in when
\* Trigger was called. Stateless: the state returned beside an error is the
\* currentState argument. Both for a missing entry and for a false guard,
\* and for calls that follow earlier calls.
C1_RejectedTriggerKeepsState ==
    \A th \in ThreadIds :
        LET f == frames[th] IN
        (f.pc = "returned" /\ f.err # NoError) =>
            /\ mode = "stateful" => GetCurrentState(f.eng) = f.pre
            /\ mode = "stateless" => f.ret = f.arg

\* C1 witness: a stateful Trigger was rejected by the guard of a transition
\* that leads to another state, on an engine that an earlier Trigger had
\* moved away from the state it was built with (only Closed is registered, so
\* the engine was built in Closed, and it is now in Open).
C1_Witness ==
    /\ mode = "stateful"
    /\ states = {Closed}
    /\ frames[1].pc = "returned"
    /\ frames[1].err # NoError
    /\ LogAt(frames[1], {"guard"}) # {}
    /\ frames[1].pre = Open
    /\ frames[1].t.to # frames[1].pre

\* C2: a Trigger succeeds exactly when the table holds an entry for (current
\* state, event) whose guard is absent or returned true, and on success the
\* new state is the `to` of that entry: the returned state (stateless) or
\* what GetCurrentState then gives (stateful).
C2_SuccessIsRegisteredTarget ==
    \A th \in ThreadIds :
        frames[th].pc = "returned" =>
            LET f == frames[th]
                c == f.pre
                e == f.event
                guardOk == transitions[c][e].guard = NilFn
                           \/ \E k \in LogAt(f, {"guard"}) : f.log[k].result
            IN /\ (f.err = NoError) <=> (HasEntry(transitions, c, e) /\ guardOk)
               /\ f.err = NoError =>
                    IF mode = "stateless"
                    THEN f.ret = transitions[c][e].to
                    ELSE GetCurrentState(f.eng) = transitions[c][e].to

\* C2 witness: a successful Trigger over a guarded transition between two
\* different states.
C2_Witness ==
    /\ frames[1].pc = "returned"
    /\ frames[1].err = NoError
    /\ frames[1].t.guard # NilFn
    /\ frames[1].t.to # frames[1].pre
    /\ mode = "stateful" => GetCurrentState(frames[1].eng) = frames[1].t.to

\* C3: stateless Trigger(c, e) with no entry for (c, e), also when c has no
\* transitions at all or is no registered state, fails with
\* NoTransitionError{From: c, Event: e} and returns c.
C3_NoTransition ==
    \A th \in ThreadIds :
        LET f == frames[th] IN
        (f.pc = "returned" /\ mode = "stateless"
            /\ ~HasEntry(transitions, f.arg, f.event)) =>
            /\ f.err = [kind |-> "NoTransitionError", From |-> f.arg, Event |-> f.event]
            /\ f.ret = f.arg

\* C3 witness: a NoTransitionError was returned for a state that is not
\* registered and is not the zero value, while the table is not empty.
C3_Witness ==
    /\ mode = "stateless"
    /\ frames[1].pc = "returned"
    /\ frames[1].err.kind = "NoTransitionError"
    /\ frames[1].arg \notin states
    /\ frames[1].arg # ZeroState
    /\ DOMAIN transitions # {}

\* C4: stateless Trigger(c, e) over an entry (c, e) -> target that has a
\* guard: the guard is called with (c, target, e); when it returns false the
\* call fails with GuardError{From: c, To: target, Event: e} and returns c,
\* when it returns true the call returns target and no error.
C4_GuardDecides ==
    \A th \in ThreadIds :
        LET f == frames[th] IN
        (f.pc = "returned" /\ mode = "stateless"
            /\ HasEntry(transitions, f.arg, f.event)
            /\ transitions[f.arg][f.event].guard # NilFn) =>
            LET t == transitions[f.arg][f.event]
                g == f.log[1]
            IN /\ Len(f.log) >= 1
               /\ g.hook = "guard" /\ g.fn = t.guard
               /\ g.from = f.arg /\ g.to = t.to /\ g.event = f.event
               /\ ~g.result =>
                    /\ f.err = [kind |-> "GuardError", From |-> f.arg, To |-> t.to,
                                Event |-> f.event]
                    /\ f.ret = f.arg
               /\ g.result => (f.err = NoError /\ f.ret = t.to)

\* C4 witness: a stateless Trigger was rejected by the guard of a transition
\* between two different states.
C4_Witness ==
    /\ mode = "stateless"
    /\ frames[1].pc = "returned"
    /\ frames[1].err.kind = "GuardError"
    /\ frames[1].t.to # frames[1].arg

\* C5 (as claimed): a failed stateful Trigger returns a structured error that
\* tells the cause: NoTransition{from, event} when there is no entry,
\* GuardRejected{from, to, event} when the guard returned false.
C5_StatefulErrorsAreStructured ==
    \A th \in ThreadIds :
        LET f == frames[th] IN
        (mode = "stateful" /\ f.pc = "returned" /\ f.err # NoError) =>
            IF LogAt(f, {"guard"}) = {}
            THEN /\ f.err.kind = "NoTransitionError"
                 /\ f.err.From = f.pre /\ f.err.Event = f.event
            ELSE /\ f.err.kind = "GuardError"
                 /\ f.err.From = f.pre /\ f.err.To = f.t.to /\ f.err.Event = f.event

\* C6: on every successful Trigger the before hook runs before the commit
\* and the after hook after it. Every before hook that ran saw the source
\* state in the cell (stateful) or no result set yet (stateless); every
\* after hook that ran saw the target; before hooks precede after hooks in
\* the call; and the hooks the engine shape supports have run by the time
\* Trigger returns.
C6_HooksAroundCommit ==
    \A th \in ThreadIds :
        LET f == frames[th]
            befores == LogAt(f, {"before", "evBefore"})
            afters == LogAt(f, {"after", "evAfter"})
        IN /\ \A k \in befores :
                f.log[k].obs = (IF mode = "stateless" THEN NoState ELSE f.from)
           /\ \A k \in afters : f.log[k].obs = f.t.to
           /\ \A k \in befores, j \in afters : k < j
           /\ (f.pc = "returned" /\ f.err = NoError) =>
                IF mode = "stateless"
                THEN /\ f.t.before # NilFn => befores # {}
                     /\ f.t.after # NilFn => afters # {}
                ELSE /\ BeforeCapable(f.event) => befores # {}
                     /\ AfterCapable(f.event) => afters # {}

\* C6 witness: a stateful Trigger between two different states has returned
\* after running the event's BeforeTransition and AfterTransition.
C6_Witness ==
    /\ mode = "stateful"
    /\ frames[1].pc = "returned"
    /\ frames[1].err = NoError
    /\ frames[1].from # frames[1].t.to
    /\ LogAt(frames[1], {"evBefore"}) # {}
    /\ LogAt(frames[1], {"evAfter"}) # {}

\* C7 (as claimed): a successful Trigger has invoked each hook that its
\* transition or event carries (the transition's before and after callbacks,
\* the event's BeforeTransition and AfterTransition) exactly once and no
\* other hook; a rejected Trigger has invoked no before or after hook. Holding
\* for every call, this gives equal counts over any sequence of calls.
C7_HooksOncePerSuccess ==
    \A th \in ThreadIds :
        LET f == frames[th] IN
        f.pc = "returned" =>
            \A k \in HookKinds :
                Cardinality(LogAt(f, {k})) =
                    IF f.err = NoError /\ k \in AttachedKinds(f.t, f.event) THEN 1 ELSE 0

\* C8 (as claimed): in both engine shapes a successful Trigger whose event
\* value is before-capable (after-capable) has invoked the event's own
\* BeforeTransition before the commit (AfterTransition after it), whether or
\* not the transition has a callback of its own.
C8_EventCapabilityInvoked ==
    \A th \in ThreadIds :
        LET f == frames[th] IN
        (f.pc = "returned" /\ f.err = NoError) =>
            /\ BeforeCapable(f.event) =>
                  \E k \in LogAt(f, {"evBefore"}) :
                      f.log[k].obs = (IF mode = "stateless" THEN NoState ELSE f.from)
            /\ AfterCapable(f.event) =>
                  \E k \in LogAt(f, {"evAfter"}) : f.log[k].obs = f.t.to

\* C9: the outcome of Build depends only on the state set and the initial
\* state. With no registered state it fails (both shapes); stateless Build
\* with a registered state succeeds; stateful Build with a registered state
\* and a designated initial state that is registered succeeds; whatever the
\* table holds. A successful Build hands the caller an engine, a failed one
\* does not.
C9_BuildOutcome ==
    [][\A k \in Slots : Build(k) =>
        /\ states = {} => (buildErr' # NoError /\ buildErr'.Msg = MsgNoStates)
        /\ (mode = "stateless" /\ states # {}) => buildErr' = NoError
        /\ (mode = "stateful" /\ states # {} /\ isInitialStateSet
                /\ initialState \in states) => buildErr' = NoError
        /\ buildErr' = NoError => engines'[k].shape = mode
        /\ buildErr' # NoError => engines'[k] = engines[k]]_vars

\* C9 witness: a Build with one registered state and an empty table has
\* succeeded.
C9_Witness ==
    /\ Cardinality(states) = 1
    /\ DOMAIN transitions = {}
    /\ buildErr = NoError
    /\ engines[1] # NoEngine

\* C10: stateful Build with a non-empty state set fails with "initial state
\* must be set" exactly when SetInitialState was never called, also when the
\* zero value of the state type is registered; SetInitialState with the zero
\* value designates it, and Build then succeeds if it is registered.
C10_InitialStateMustBeSet ==
    [][/\ \A k \in Slots :
            /\ (Build(k) /\ mode = "stateful" /\ states # {}) =>
                 ((buildErr' = ErrorString(MsgInitialNotSet)) <=> ~isInitialStateSet)
            /\ (Build(k) /\ mode = "stateful" /\ isInitialStateSet
                 /\ initialState = ZeroState /\ ZeroState \in states) =>
                 (buildErr' = NoError /\ engines'[k].currentState = ZeroState)
       /\ \A s \in States :
             SetInitialState(s) => (isInitialStateSet' /\ initialState' = s)]_vars

\* C10 witness: Build failed for want of an initial state although the zero
\* value is the one registered state.
C10_Witness ==
    /\ mode = "stateful"
    /\ states = {ZeroState}
    /\ ~isInitialStateSet
    /\ buildErr = ErrorString(MsgInitialNotSet)

\* The other half of C10 happens too: a Build that followed
\* SetInitialState(ZeroState) has succeeded and the engine starts there.
C10_ZeroDesignated ==
    /\ mode = "stateful"
    /\ isInitialStateSet
    /\ initialState = ZeroState
    /\ buildErr = NoError
    /\ engines[1] # NoEngine
    /\ GetCurrentState(1) = ZeroState

\* C11 (as claimed): stateful Build fails with "initial state must be a valid
\* state" whenever the designated initial state is not in the state set when
\* Build is called.
C11_InvalidWheneverNotMember ==
    [][\A k \in DOMAIN engines :
        (Build(k) /\ mode = "stateful" /\ isInitialStateSet
            /\ initialState \notin states) =>
            buildErr' = ErrorString(MsgInitialInvalid)]_vars

\* C11 (amended): stateful Build with a non-empty state set fails with
\* "initial state must be a valid state" exactly when an initial state was
\* designated and it is not in the state set at that moment; with an empty
\* state set Build fails with "state machine must have at least one state"
\* whatever was designated. Membership is only tested by Build:
\* SetInitialState records any state, registered or not, and reports nothing,
\* and a Build made once the designated state has been registered succeeds.
C11_InvalidInitialState ==
    [][/\ \A k \in DOMAIN engines :
            /\ (Build(k) /\ mode = "stateful" /\ states # {}) =>
                 ((buildErr' = ErrorString(MsgInitialInvalid))
                     <=> (isInitialStateSet /\ initialState \notin states))
            /\ (Build(k) /\ mode = "stateful" /\ states = {}) =>
                 buildErr' = ErrorString(MsgNoStates)
            /\ (Build(k) /\ mode = "stateful" /\ isInitialStateSet
                    /\ initialState \in states) => buildErr' = NoError
       /\ \A s \in States :
            (Quiescent /\ mode = "stateful") =>
                /\ ENABLED SetInitialState(s)
                /\ SetInitialState(s) =>
                     (initialState' = s /\ isInitialStateSet'
                         /\ states' = states /\ buildErr' = buildErr)]_vars

\* C11 witness: Build has failed because the designated initial state (Open)
\* is not among the registered states (only Closed is).
C11_Witness ==
    /\ mode = "stateful"
    /\ states = {Closed}
    /\ isInitialStateSet
    /\ initialState = Open
    /\ buildErr = ErrorString(MsgInitialInvalid)

\* The case that separates the amended C11 from the claimed one: an initial
\* state was designated, no state is registered, and Build has failed for the
\* empty state set.
C11_EmptySetDesignated ==
    /\ mode = "stateful"
    /\ states = {}
    /\ isInitialStateSet
    /\ buildErr = ErrorString(MsgNoStates)

\* C12: right after a successful stateful Build, before any Trigger,
\* GetCurrentState on the new engine gives the designated initial state, which
\* is the argument of the most recent SetInitialState call.
C12_StartsAtInitialState ==
    [][/\ \A k \in DOMAIN engines :
            (Build(k) /\ mode = "stateful" /\ buildErr' = NoError) =>
                GetCurrentState(k)' = initialState
       /\ \A s \in States : SetInitialState(s) => initialState' = s]_vars

\* C12 witness: an engine was built with Open, not the zero value, as the
\* designated initial state, and no Trigger has been started on it since.
C12_Witness ==
    /\ mode = "stateful"
    /\ buildErr = NoError
    /\ initialState = Open
    /\ engines[1] # NoEngine
    /\ GetCurrentState(1) = Open
    /\ \A th \in ThreadIds : frames[th].pc = "idle"

\* C16: Build has no effect on the builder. Whether it succeeds or fails, it
\* leaves the state set, the table and the designated initial state as they
\* were, so that a Build made next, with no builder call in between, has the
\* same outcome: the same error, or an engine with the same table and the
\* same initial state.
C16_BuildLeavesBuilder ==
    [][\A k \in DOMAIN engines : Build(k) =>
        /\ states' = states
        /\ transitions' = transitions
        /\ initialState' = initialState
        /\ isInitialStateSet' = isInitialStateSet
        /\ BuildError(mode, states', isInitialStateSet', initialState') = buildErr'
        /\ buildErr' = NoError =>
              engines'[k] = NewStateMachine(mode, initialState')]_vars

\* C16 witness: the builder holds a registered state, a designated initial
\* state and a transition, and a Build has just succeeded on it.
C16_Witness ==
    /\ mode = "stateful"
    /\ buildErr = NoError
    /\ engines[1] # NoEngine
    /\ isInitialStateSet
    /\ initialState \in states
    /\ NumEntries(transitions) = 1
    /\ \A th \in ThreadIds : frames[th].pc = "idle"

\* C16 happens for a failing Build too: the builder is as it was (a state
\* registered, no initial state designated) after Build reported the error.
C16_FailedBuild ==
    /\ mode = "stateful"
    /\ buildErr = ErrorString(MsgInitialNotSet)
    /\ states # {}
    /\ ~isInitialStateSet
    /\ NumEntries(transitions) = 1

\* C14 (as claimed): what a built engine holds is fixed at Build. No later
\* step (in particular no AddState or AddTransition on the builder) changes
\* the state set of an engine already built, nor what its table gives for any
\* (state, event), and so the outcome of any Trigger on it.
C14_EngineHoldsSnapshot ==
    [][\A k \in DOMAIN engines :
        (engines[k] # NoEngine /\ ~Build(k)) =>
            /\ EngineStates(k)' = EngineStates(k)
            /\ \A c \in States, e \in Events :
                  LookupTransition(mode, EngineTable(k)', c, e)
                      = LookupTransition(mode, EngineTable(k), c, e)]_vars

\* The closures a Trigger over transition t with event e may call: the
\* transition's guard and callbacks, and the event's own methods.
FnsOf(t, e) == {t[x] : x \in (DOMAIN t) \cap {"guard", "before", "after"}} \cup {e}

\* C13: AddTransition overwrites. Whatever the table holds, in particular an
\* entry for the same (from, event), the table an AddTransition call leaves
\* gives for (from, event) exactly the transition of this call (its target,
\* its options applied to fresh nil fields: nothing is kept of an entry it
\* replaces, also when this call has no options), and every other entry is as
\* it was. A Trigger consults the table as it is now: every closure it calls
\* belongs to the entry now registered for (state, event), and a success
\* yields that entry's target. (The first part is stated for the builder as
\* its caller finds it between calls; the tables are the same in all states.)
C13_SecondRegistrationWins ==
    /\ frames = Forgotten =>
          \A from \in States, to \in States, event \in Events,
            opts \in OptionLists(mode) :
              LET after == Registered(transitions, mode, from, to, event, opts) IN
              /\ LookupTransition(mode, after, from, event) =
                    [ok |-> TRUE,
                     t |-> ApplyOpts(NewTransition(mode, from, to, event), opts, 1)]
              /\ \A c \in States, e \in Events :
                    <<c, e>> # <<from, event>> =>
                        LookupTransition(mode, after, c, e)
                            = LookupTransition(mode, transitions, c, e)
    /\ \A th \in ThreadIds :
          LET f == frames[th] IN
          (f.pc # "idle" /\ f.from # NoState
              /\ HasEntry(transitions, f.from, f.event)) =>
              LET cur == transitions[f.from][f.event] IN
              /\ f.t = cur
              /\ \A k \in 1..Len(f.log) : f.log[k].fn \in FnsOf(cur, f.event)
              /\ (f.pc = "returned" /\ f.err = NoError) =>
                    (IF mode = "stateless" THEN f.ret ELSE GetCurrentState(f.eng))
                        = cur.to

\* C13 witness: the one entry of the table was registered twice; the entry
\* replaced had guard g2 (in the stateless package: with callbacks b2 and a2),
\* the second registration had no options and another target, and a Trigger
\* over it has succeeded without calling anything.
C13_Witness ==
    /\ replaced = "g2"
    /\ NumEntries(transitions) = 1
    /\ frames[1].pc = "returned"
    /\ frames[1].err = NoError
    /\ frames[1].t.guard = NilFn
    /\ frames[1].t.to # frames[1].from
    /\ LogAt(frames[1], {"guard", "before", "after"}) = {}

\* What the engine in variable k holds: its own fields and the maps its
\* states and transitions fields refer to.
Held(k) == [engine |-> engines[k], table |-> EngineTable(k), states |-> EngineStates(k)]

\* C15 (as claimed): engines built from one builder are independent. A Build
\* gives an engine that starts at the initial state whatever the engines built
\* before have done; a step that changes what one engine holds (its current
\* state, its table, its state set) leaves every other engine as it was, so
\* nothing mutable is shared between two engines.
C15_EnginesIndependent ==
    [][\A j \in DOMAIN engines, k \in DOMAIN engines :
        /\ (Build(k) /\ buildErr' = NoError) => GetCurrentState(k)' = initialState
        /\ (j # k /\ engines[j] # NoEngine /\ engines[k] # NoEngine
               /\ ~Build(j) /\ ~Build(k)) =>
              ~(Held(j)' # Held(j) /\ Held(k)' # Held(k))]_vars

\* What the guard returned to call f; TRUE when the call reached no guard.
GuardResultOf(f) ==
    IF LogAt(f, {"guard"}) = {} THEN TRUE
    ELSE f.log[CHOOSE i \in LogAt(f, {"guard"}) : TRUE].result

\* The orders in which the calls of the goroutines can be put one after another.
Orders == {o \in [1..Cardinality(ThreadIds) -> ThreadIds] :
              \A i, j \in DOMAIN o : i # j => o[i] # o[j]}

\* C17: once the concurrent Trigger calls on a stateful engine have all
\* returned, there is an order of the calls such that running them one at a
\* time in that order, from the initial state and with the guard results they
\* got, gives each call the state it saw, gives each call its success or
\* failure, and ends in the engine's current state.
C17_Linearizable ==
    (mode = "stateful" /\ \A th \in ThreadIds : frames[th].pc = "returned") =>
        \A k \in DOMAIN engines :
        \E o \in Orders :
            LET f1 == frames[o[1]]
                f2 == frames[o[2]]
                r1 == TriggerResult(mode, EngineTable(k), initialState, f1.event,
                                    GuardResultOf(f1))
                r2 == TriggerResult(mode, EngineTable(k), r1.state, f2.event,
                                    GuardResultOf(f2))
            IN /\ f1.from = initialState /\ f1.err = r1.err
               /\ f2.from = r1.state /\ f2.err = r2.err
               /\ GetCurrentState(k) = r2.state

\* Both concurrent calls succeeded and moved the engine, the second starting
\* from the state the first one committed.
C17_Witness ==
    /\ mode = "stateful"
    /\ \A th \in ThreadIds : frames[th].pc = "returned" /\ frames[th].err = NoError
    /\ frames[1].from # frames[2].from
    /\ frames[1].event # frames[2].event
    /\ \E th \in ThreadIds : GetCurrentState(frames[th].eng) # initialState


\* Goroutine th is between its Lock and the end of its deferred Unlock: at
\* the lookup, the guard, the before hook, the commit, the after hook or the
\* Unlock itself.
InFlight(th) ==
    frames[th].pc \in {"lookup", "guard", "before", "commit", "after", "unlock"}

\* C18: on a stateful engine a Trigger that is anywhere from its lookup to its
\* after hook holds the engine's exclusive lock, and no two Trigger calls on
\* the same engine are in flight together.
C18_OneTriggerInFlight ==
    mode = "stateful" =>
        /\ \A th \in ThreadIds :
              InFlight(th) => engines[frames[th].eng].mu.writer = th
        /\ \A th1, th2 \in ThreadIds :
              (th1 # th2 /\ InFlight(th1) /\ InFlight(th2)) =>
                  frames[th1].eng # frames[th2].eng

\* One goroutine is at its after hook, the commit done, while the other has
\* called Trigger on the same engine and waits for the lock.
C18_Witness ==
    /\ mode = "stateful"
    /\ \E th1, th2 \in ThreadIds :
          /\ frames[th1].pc = "after"
          /\ frames[th2].pc = "lock"
          /\ frames[th1].eng = frames[th2].eng
          /\ ~ENABLED AcquireLock(th2)
          /\ GetCurrentState(frames[th1].eng) # frames[th1].from


\* C19: a stateless Trigger never writes the engine's table or state set,
\* and with several calls running at once on one engine every call that has
\* returned has the state and error that Trigger run alone gives for its
\* arguments and its guard result.
C19_StatelessTriggerPure ==
    /\ [](mode = "stateless" =>
            \A th \in ThreadIds :
                frames[th].pc = "returned" =>
                    LET f == frames[th]
                        alone == TriggerResult(mode, EngineTable(f.eng), f.arg, f.event,
                                               GuardResultOf(f))
                    IN f.ret = alone.state /\ f.err = alone.err)
    /\ [][(mode = "stateless" /\ frames' # frames) =>
             \A k \in DOMAIN engines :
                 /\ EngineTable(k)' = EngineTable(k)
                 /\ EngineStates(k)' = EngineStates(k)
                 /\ engines'[k] = engines[k]]_vars

\* One call has returned its target state while a call with another current
\* state is still running on the same engine, between its commit and its
\* after callback.
C19_Witness ==
    /\ mode = "stateless"
    /\ frames[1].pc = "returned" /\ frames[1].err = NoError
    /\ frames[1].ret = frames[1].t.to /\ frames[1].ret # frames[1].arg
    /\ frames[2].pc = "after" /\ frames[2].eng = frames[1].eng
    /\ frames[2].arg # frames[1].arg
    /\ frames[2].ret # frames[1].ret


\* C20: a stateful engine and a stateless engine wrapped by a caller-held
\* cell, built from the same registrations and started in the same state,
\* agree after every event of every event sequence: once both calls made
\* with an event have returned, both accepted it or both rejected it, and
\* the cell equals the stateful engine's current state (as it does before
\* the first event).
C20_ModesInStep ==
    \A k \in DOMAIN engines :
        (engines[k] # NoEngine /\ cell # NoState) =>
            /\ (frames[1].pc = "idle" /\ frames[2].pc = "idle") =>
                  cell = GetCurrentState(k)
            /\ (frames[1].pc = "returned" /\ frames[2].pc = "returned"
                   /\ frames[1].eng = k /\ frames[2].eng = k) =>
                  /\ frames[2].event = frames[1].event
                  /\ cell = GetCurrentState(k)
                  /\ (frames[1].err = NoError) <=> (frames[2].err = NoError)
                  /\ frames[2].err = NoError => frames[2].ret = GetCurrentState(k)

\* Both have left the initial state through an accepted event and have just
\* rejected an event whose guard was called by both and returned false.
C20_Witness ==
    /\ cell # NoState /\ cell # initialState
    /\ \E k \in DOMAIN engines :
          /\ engines[k] # NoEngine /\ GetCurrentState(k) = cell
          /\ frames[1].pc = "returned" /\ frames[1].eng = k
          /\ frames[1].err # NoError
          /\ \E i \in DOMAIN frames[1].log : frames[1].log[i].hook = "guard"
          /\ frames[2].pc = "returned"
          /\ \E i \in DOMAIN frames[2].log : frames[2].log[i].hook = "guard"
          /\ HasEntry(EngineTable(k), cell, frames[2].event)
          /\ frames[2].err = GuardErr("stateless", cell,
                                       StatelessTwin(EngineTable(k))[cell][frames[2].event],
                                       frames[2].event)


\* seq is strictly ascending under Less.
IsAscending(seq, Less(_, _)) == \A i \in 1..(Len(seq) - 1) : Less(seq[i], seq[i + 1])

\* The transitions of the table trans as Generate sees them: the texts of
\* from, to and event.
DiagramEntries(trans) ==
    UNION {{[from |-> Sprint(c), to |-> Sprint(trans[c][e].to), event |-> Sprint(e)] :
               e \in DOMAIN trans[c]} : c \in DOMAIN trans}

\* Distinct values of the machine's state type have distinct texts, and so
\* have distinct values of its event type.
DistinctTexts ==
    \A kind \in DiagramKinds :
        states \subseteq kind.states =>
            /\ \A a, b \in kind.states : Sprint(a) = Sprint(b) => a = b
            /\ \A a, b \in kind.events : Sprint(a) = Sprint(b) => a = b

\* The text of C21 for the drawn diagram: the header, the state lines in
\* ascending order of the states' texts, the transition lines in ascending
\* order of (from, to, event), the footer if the format has one; one line
\* for each registered state and one for each transition.
IsOrderedText ==
    LET k == diagram.eng
        sts == EngineStates(k)
        trans == EngineTable(k)
        cur == Sprint(diagram.currentState)
    IN \E ss \in RangeOrders(StringStates(sts)) :
       \E ts \in RangeOrders(DiagramEntries(trans)) :
           /\ Len(ss) = Cardinality(sts)
           /\ Len(ts) = NumEntries(trans)
           /\ IsAscending(ss, StringLess)
           /\ IsAscending(ts, TransitionLess)
           /\ diagram.text =
                 IF diagram.format = MermaidFormat
                 THEN WriteLines(
                          WriteLines(MermaidHeader,
                              [i \in 1..Len(ss) |-> MermaidStateLine(ss[i], cur)], 1),
                          [i \in 1..Len(ts) |-> MermaidTransitionLine(ts[i])], 1)
                 ELSE WriteLines(
                          WriteLines(DOTHeader,
                              [i \in 1..Len(ss) |-> DOTStateLine(ss[i], cur)], 1),
                          [i \in 1..Len(ts) |-> DOTTransitionLine(ts[i])], 1)
                      \o DOTFooter

\* C21: whatever the order in which the maps were ranged, the text
\* GenerateDiagram returns for a supported format is the one text made of the
\* header, then one line for each registered state in ascending order of the
\* states' texts, then one line for each transition in ascending order of
\* (from, to, event), then the footer if the format has one. (Each order of
\* ranging is a step of its own, so the one text is the same for all.)
C21_DiagramDeterministic ==
    (diagram.called /\ diagram.err = NoError) => IsOrderedText

\* What holds of every drawn diagram: the text of C21 whenever the texts of
\* the machine's values are distinct.
DiagramDeterministicForDistinctTexts ==
    (diagram.called /\ diagram.err = NoError /\ DistinctTexts) => IsOrderedText

\* A diagram was drawn of a machine whose two transitions leave states of
\* equal text on events of equal text for targets of different texts: which
\* of the two is drawn depends on the order in which the table was ranged.
TextsCollide ==
    /\ diagram.called /\ diagram.err = NoError
    /\ \E a, b \in DOMAIN EngineTable(diagram.eng) :
          /\ a # b /\ Sprint(a) = Sprint(b)
          /\ \E e \in DOMAIN EngineTable(diagram.eng)[a] \cap
                      DOMAIN EngineTable(diagram.eng)[b] :
                Sprint(EngineTable(diagram.eng)[a][e].to)
                    # Sprint(EngineTable(diagram.eng)[b][e].to)


\* The positions of text at which a line equal to line starts.
LineStarts(text, line) ==
    {i \in 2..(Len(text) - Len(line) + 1) :
        text[i - 1] = Newline[1] /\ SubSeq(text, i, i + Len(line) - 1) = line}

\* The positions of text at which the bytes of part start.
Occurrences(text, part) ==
    {i \in 1..(Len(text) - Len(part) + 1) : SubSeq(text, i, i + Len(part) - 1) = part}

\* The case of C27 for the drawn diagram.
IsMarkedAtCurrent ==
    LET sts == EngineStates(diagram.eng)
        cur == diagram.currentState
        mermaid == diagram.format = MermaidFormat
        marked(s) == IF mermaid
                     THEN Indent \o Sprint(s) \o MermaidMark \o Sprint(s) \o Newline
                     ELSE Indent \o Quote \o Sprint(s) \o Quote \o DOTCurrent
        plain(s) == IF mermaid THEN Indent \o Sprint(s) \o Newline
                    ELSE Indent \o Quote \o Sprint(s) \o Quote \o DOTOther
        marking == IF mermaid THEN MermaidMark ELSE DOTCurrent
    IN IF diagram.format \in {MermaidFormat, DOTFormat}
       THEN /\ diagram.err = NoError
            /\ \A s \in sts :
                  /\ Cardinality(LineStarts(diagram.text, marked(s)))
                        = IF s = cur THEN 1 ELSE 0
                  /\ Cardinality(LineStarts(diagram.text, plain(s)))
                        = IF s = cur THEN 0 ELSE 1
            /\ Cardinality(Occurrences(diagram.text, marking))
                  = IF cur \in sts THEN 1 ELSE 0
       ELSE /\ diagram.err = ErrorString(MsgUnsupportedFormat)
            /\ diagram.text = <<>>

\* C27: in a diagram of a supported format a registered state has the marked
\* line exactly when it is the currentState argument and the unmarked line
\* exactly when it is not, so the marking occurs once when currentState is
\* registered and not at all when it is not; for any other format
\* GenerateDiagram returns the error "unsupported diagram format" and the
\* empty string.
C27_MarksCurrentState == diagram.called => IsMarkedAtCurrent

\* What holds of every drawn diagram: the case of C27 whenever the texts of
\* the machine's values are distinct.
MarksCurrentStateForDistinctTexts ==
    (diagram.called /\ DistinctTexts) => IsMarkedAtCurrent


\* C22: in a stateful Trigger the guard is called with from = the current
\* state as it is at that moment and to = the target registered for (from,
\* event); from the guard call up to the commit the caller holds the
\* exclusive lock, no other Trigger on the engine is past its Lock, and the
\* current state stays equal to from, so the commit overwrites exactly the
\* state the guard was asked about; once committed, the current state is the
\* target.
C22_GuardAndCommitAtomic ==
    mode = "stateful" =>
        \A th \in ThreadIds :
            LET f == frames[th] IN
            /\ \A i \in LogAt(f, {"guard"}) :
                  /\ f.log[i].from = f.log[i].obs
                  /\ f.log[i].from = f.from
                  /\ HasEntry(EngineTable(f.eng), f.from, f.event)
                  /\ f.log[i].to = EngineTable(f.eng)[f.from][f.event].to
                  /\ f.log[i].event = f.event
            /\ f.pc \in {"guard", "before", "commit"} =>
                  /\ engines[f.eng].mu.writer = th
                  /\ GetCurrentState(f.eng) = f.from
                  /\ \A other \in ThreadIds \ {th} :
                        frames[other].eng = f.eng =>
                            frames[other].pc \in {"idle", "lock", "returned"}
            /\ (f.pc \in {"after", "unlock"} /\ f.err = NoError) =>
                  GetCurrentState(f.eng) = f.t.to

\* A Trigger whose guard has returned true is about to commit a change of
\* state while another Trigger on the same engine waits for the lock.
C22_Witness ==
    /\ mode = "stateful"
    /\ \E th1, th2 \in ThreadIds :
          /\ frames[th1].pc = "commit"
          /\ LogAt(frames[th1], {"guard"}) # {}
          /\ frames[th1].t.to # frames[th1].from
          /\ frames[th2].pc = "lock"
          /\ frames[th2].eng = frames[th1].eng


\* Goroutine th is inside GetCurrentState with the shared lock taken.
Reading(th) == frames[th].pc \in {"read", "runlock"}

\* C23: GetCurrentState holds the lock in shared mode from before it reads
\* the current state until it returns; while it does, no Trigger on the
\* same engine is anywhere from its lookup to the end of its after hook, so
\* the value it returns is never the target of a Trigger whose after hook
\* has not run; and no step of GetCurrentState changes the current state.
C23_SharedRead ==
    /\ [](mode = "stateful" =>
            \A th \in ThreadIds :
                /\ Reading(th) =>
                      /\ engines[frames[th].eng].mu.readers >= 1
                      /\ engines[frames[th].eng].mu.writer = 0
                      /\ \A w \in ThreadIds :
                            frames[w].eng = frames[th].eng => ~InFlight(w)
                /\ (frames[th].op = "GetCurrentState" /\ frames[th].pc = "runlock") =>
                      frames[th].ret = GetCurrentState(frames[th].eng))
    /\ [][\A th \in ThreadIds :
             ((\E k \in DOMAIN engines : GoGetCurrentState(th, k))
                 \/ AcquireRLock(th) \/ ReadStep(th) \/ ReleaseRLock(th)) =>
                 \A k \in DOMAIN engines : GetCurrentState(k)' = GetCurrentState(k)]_vars

\* Two GetCurrentState calls overlap: both goroutines hold the shared lock
\* of the same engine at once.
C23_Witness ==
    /\ mode = "stateful"
    /\ \A th \in ThreadIds : Reading(th) /\ frames[th].eng = 1
    /\ engines[1].mu.readers = 2

\* A GetCurrentState call waits for the lock while a Trigger that has
\* committed a new state is at its after hook, and cannot go on.
C23_ReaderWaits ==
    /\ mode = "stateful"
    /\ \E r, w \in ThreadIds :
          /\ frames[r].pc = "rlock" /\ frames[w].pc = "after"
          /\ frames[r].eng = frames[w].eng
          /\ GetCurrentState(frames[w].eng) # frames[w].from
          /\ ~ENABLED AcquireRLock(r)


\* The table trans names a state, as from or to, that is not in sts.
NamesUnregistered(trans, sts) ==
    \E c \in DOMAIN trans :
        c \notin sts \/ \E e \in DOMAIN trans[c] : trans[c][e].to \notin sts

\* C24: a builder between calls takes AddTransition(from, to, ...) whether or
\* not from and to are registered, and the entry it stores has that to;
\* Build of a builder whose table names unregistered states reports no error
\* when the state set is non-empty and (stateful) the designated initial
\* state is registered; and a Trigger that succeeds over a transition whose
\* to is unregistered leaves the returned state (stateless) or the current
\* state (stateful) at that to, outside the state set.
C24_UnregisteredStatesAccepted ==
    /\ \A from \in States, to \in States, event \in Events :
          (Quiescent /\ (from \notin states \/ to \notin states)
              /\ (HasEntry(transitions, from, event)
                     \/ NumEntries(transitions) < MaxEntries)) =>
              /\ ENABLED AddTransition(from, to, event, <<>>)
              /\ Registered(transitions, mode, from, to, event, <<>>)[from][event].to = to
    /\ (Quiescent /\ NamesUnregistered(transitions, states) /\ states # {}
           /\ (mode = "stateful" => (isInitialStateSet /\ initialState \in states))) =>
          /\ BuildError(mode, states, isInitialStateSet, initialState) = NoError
          /\ \A k \in DOMAIN engines : ENABLED Build(k)
    /\ \A th \in ThreadIds :
          LET f == frames[th] IN
          (f.op = "Trigger" /\ f.pc = "returned" /\ f.err = NoError
              /\ f.t.to \notin EngineStates(f.eng)) =>
              /\ Cell(f) = f.t.to
              /\ Cell(f) \notin EngineStates(f.eng)

\* A stateful engine was built with Closed as its only state and a
\* transition from Closed to the unregistered Open; a Trigger has succeeded
\* and the current state is Open.
C24_Witness ==
    /\ mode = "stateful"
    /\ states = {Closed}
    /\ buildErr = NoError
    /\ frames[1].pc = "returned" /\ frames[1].err = NoError
    /\ frames[1].from = Closed
    /\ GetCurrentState(frames[1].eng) = Open


\* The positions of the options of one kind in an argument list.
OfKind(opts, kind) == {i \in 1..Len(opts) : opts[i].field = kind}

\* The closure of the last option of one kind in an argument list; nil when
\* the list has none of that kind.
LastOfKind(opts, kind) ==
    IF OfKind(opts, kind) = {} THEN NilFn
    ELSE opts[CHOOSE i \in OfKind(opts, kind) :
                  \A j \in OfKind(opts, kind) : j <= i].fn

\* C25: after AddTransition(from, to, event, opts...) the stored entry holds,
\* in each of its optional fields (guard; before and after in the stateless
\* package), the closure of the last option of that kind in opts, whatever
\* options of other kinds stand before, between or after; a field no option
\* names is nil.
C25_LastOptionOfEachKindWins ==
    (applied.kept /\ HasEntry(transitions, applied.from, applied.event)) =>
        LET t == transitions[applied.from][applied.event] IN
        /\ t.guard = LastOfKind(applied.opts, "guard")
        /\ mode = "stateless" =>
              /\ t.before = LastOfKind(applied.opts, "before")
              /\ t.after = LastOfKind(applied.opts, "after")

\* The latest call passed guard g1, then a before hook, then guard g2, and
\* the entry holds g2 and that hook.
C25_Witness ==
    /\ applied.kept
    /\ applied.opts = <<WithGuard("g1"), WithBefore("b1"), WithGuard("g2")>>
    /\ HasEntry(transitions, Closed, "plain")
    /\ transitions[Closed]["plain"].guard = "g2"
    /\ transitions[Closed]["plain"].before = "b1"
    /\ transitions[Closed]["plain"].after = NilFn


\* The guard and hooks a Trigger call invokes, in order, by the table, the
\* current state, the event and the guard's result alone.
CallsDue(m, trans, c, e, r) ==
    LET l == LookupTransition(m, trans, c, e)
        g == IF l.t.guard # NilFn
             THEN <<[hook |-> "guard", fn |-> l.t.guard]>> ELSE <<>>
    IN IF ~l.ok THEN <<>>
       ELSE IF ~GuardAllows(l.t.guard, r) THEN g
       ELSE g \o BeforeHooks(m, l.t, e) \o AfterHooks(m, l.t, e)

\* The guard and hooks call f has invoked, in order.
CallsMade(f) == [i \in DOMAIN f.log |-> [hook |-> f.log[i].hook, fn |-> f.log[i].fn]]

\* C26: the error of a returned Trigger call, the state it leaves and the
\* guard and hooks it invoked are those fixed by the table, the current
\* state, the event and the guard's result, whatever context was passed
\* (live, cancelled or past its deadline); and every guard and hook was
\* called with the very context the caller passed.
C26_ContextOnlyForwarded ==
    \A th \in ThreadIds :
        LET f == frames[th] IN
        (f.op = "Trigger" /\ f.pc = "returned") =>
            LET r == GuardResultOf(f)
                due == TriggerResult(mode, EngineTable(f.eng), f.from, f.event, r)
            IN /\ f.err = due.err
               /\ Cell(f) = due.state
               /\ CallsMade(f) = CallsDue(mode, EngineTable(f.eng), f.from, f.event, r)
               /\ \A i \in DOMAIN f.log : f.log[i].ctx = f.ctx

\* A Trigger given a cancelled context has succeeded after calling a guard
\* with that context.
C26_Witness ==
    /\ frames[1].op = "Trigger" /\ frames[1].pc = "returned"
    /\ frames[1].ctx = "cancelled"
    /\ frames[1].err = NoError
    /\ Cell(frames[1]) = Open /\ frames[1].from = Closed
    /\ \E i \in DOMAIN frames[1].log :
          frames[1].log[i].hook = "guard" /\ frames[1].log[i].ctx = "cancelled"

\* A Trigger given a context past its deadline has run an event hook.
C26_ExpiredHook ==
    /\ frames[1].pc = "returned" /\ frames[1].ctx = "expired"
    /\ \E i \in DOMAIN frames[1].log :
          frames[1].log[i].hook = "evAfter" /\ frames[1].log[i].ctx = "expired"


\* The states the entries of a table lead to.
Targets(trans) == UNION {{trans[c][e].to : e \in DOMAIN trans[c]} : c \in DOMAIN trans}

\* C28: the current state of a built stateful engine is the initial state
\* its Build was given or the to of some entry of the engine's table; and,
\* when every entry's to is a registered state, it is a member of the
\* engine's state set. (No step of the builder changes initialState here, so
\* it is the initial state every Build was given.)
C28_CurrentStateFromTable ==
    \A k \in DOMAIN engines :
        (mode = "stateful" /\ engines[k] # NoEngine) =>
            /\ GetCurrentState(k) \in {initialState} \cup Targets(EngineTable(k))
            /\ Targets(EngineTable(k)) \subseteq EngineStates(k) =>
                  GetCurrentState(k) \in EngineStates(k)


\* C29: a Trigger call that has not yet passed its guard check has called no
\* guard; once past it (or returned), a call that found an entry with a
\* guard for (current state, event) has called that entry's guard exactly
\* once, with the call's current state, the entry's to and the event, and a
\* call that found no entry, or an entry without a guard, has called none.
\* No other guard is ever called. This holds for every call, the first on an
\* engine and each later one alike, so no result is carried from call to
\* call.
C29_GuardCalledOncePerCall ==
    \A th \in ThreadIds :
        LET f == frames[th]
            calls == LogAt(f, {"guard"})
        IN
        f.op = "Trigger" =>
            IF f.pc \in {"lock", "lookup", "guard"}
            THEN calls = {}
            ELSE LET l == LookupTransition(mode, EngineTable(f.eng), f.from, f.event) IN
                 /\ Cardinality(calls) = IF l.ok /\ l.t.guard # NilFn THEN 1 ELSE 0
                 /\ \A i \in calls :
                       /\ f.log[i].fn = l.t.guard
                       /\ f.log[i].from = f.from
                       /\ f.log[i].to = l.t.to
                       /\ f.log[i].event = f.event

\* A Trigger on an engine that has already left its initial state found an
\* entry with a guard, called that guard once, got false and was rejected.
C29_Witness ==
    /\ mode = "stateful"
    /\ frames[1].op = "Trigger" /\ frames[1].pc = "returned"
    /\ frames[1].err # NoError
    /\ frames[1].from # initialState
    /\ Cardinality(LogAt(frames[1], {"guard"})) = 1
    /\ \E i \in LogAt(frames[1], {"guard"}) : ~frames[1].log[i].result

\* A Trigger found no entry while the table holds a guarded entry for another
\* state, and returned without calling any guard.
C29_NoEntryNoGuard ==
    /\ frames[1].op = "Trigger" /\ frames[1].pc = "returned"
    /\ ~HasEntry(EngineTable(frames[1].eng), frames[1].from, frames[1].event)
    /\ \E c \in DOMAIN transitions : \E e \in DOMAIN transitions[c] :
          transitions[c][e].guard # NilFn
    /\ frames[1].log = <<>>


\* Goroutine th is inside a Trigger or GetCurrentState call.
InCall(th) == frames[th].pc \notin {"idle", "returned"}

\* C30: under fair scheduling every Trigger call and every GetCurrentState
\* call on a stateful engine returns: a goroutine that is inside a call,
\* waiting for the lock or past it, is eventually back from it.
C30_EveryCallReturns ==
    \A th \in ThreadIds : InCall(th) ~> (frames[th].pc = "returned")

\* A Trigger waits for the lock while another Trigger, which has committed,
\* holds it at its after hook.
C30_Witness ==
    /\ frames[1].op = "Trigger" /\ frames[1].pc = "lock"
    /\ frames[2].op = "Trigger" /\ frames[2].pc = "after"
    /\ engines[frames[1].eng].mu.writer = 2

\* A Trigger waits for the lock while a reader holds it.
C30_WriterWaitsForReader ==
    /\ frames[1].op = "Trigger" /\ frames[1].pc = "lock"
    /\ frames[2].op = "GetCurrentState" /\ frames[2].pc = "runlock"
    /\ engines[frames[1].eng].mu.readers = 1


\* Call slot n holds a call on a stateful engine that was made from inside
\* the guard or a hook of another call.
Reentered(n) == mode = "stateful" /\ frames[n].caller # 0

\* C31: on a stateful engine, a Trigger or GetCurrentState call made from
\* inside the guard, BeforeTransition or AfterTransition of a running Trigger
\* never gets past its Lock or RLock: the outer Trigger holds the lock and
\* stays inside its guard or hook, and no call on the engine that asks for
\* the lock can get it. From then on nothing changes: neither the inner call,
\* nor the outer one, nor the engine moves, and every call that waits for the
\* lock goes on waiting.
C31_LockNotReentrant ==
    /\ [](\A n \in DOMAIN frames :
            Reentered(n) =>
                /\ frames[n].pc \in {"lock", "rlock"}
                /\ frames[frames[n].caller].pc = "hook"
                /\ engines[frames[n].eng].mu.writer = frames[n].caller
                /\ \A x \in DOMAIN frames :
                      ~ENABLED AcquireLock(x) /\ ~ENABLED AcquireRLock(x))
    /\ [][\A n \in DOMAIN frames :
            Reentered(n) =>
                /\ frames'[n] = frames[n]
                /\ frames'[frames[n].caller] = frames[frames[n].caller]
                /\ engines' = engines
                /\ \A x \in DOMAIN frames :
                      frames[x].pc \in {"lock", "rlock"} =>
                          frames'[x].pc = frames[x].pc]_vars

\* The AfterTransition hook of a committed Trigger has called GetCurrentState
\* on its engine and waits in RLock, while a Trigger made later by another
\* goroutine waits in Lock.
C31_Witness ==
    /\ mode = "stateful"
    /\ frames[1].op = "Trigger" /\ frames[1].pc = "hook" /\ frames[1].hook = "after"
    /\ frames[3].caller = 1 /\ frames[3].op = "GetCurrentState"
    /\ frames[3].pc = "rlock"
    /\ frames[2].op = "Trigger" /\ frames[2].pc = "lock"
    /\ engines[frames[1].eng].mu.writer = 1

\* A guard has called Trigger on its engine and waits in Lock, while a
\* GetCurrentState made later by another goroutine waits in RLock.
C31_GuardReenters ==
    /\ mode = "stateful"
    /\ frames[2].op = "Trigger" /\ frames[2].pc = "hook" /\ frames[2].hook = "guard"
    /\ frames[3].caller = 2 /\ frames[3].op = "Trigger" /\ frames[3].pc = "lock"
    /\ frames[1].op = "GetCurrentState" /\ frames[1].pc = "rlock"

\* On a stateless engine, which has no lock, a Trigger made from inside a
\* guard returns and the outer Trigger then returns as well.
C31_StatelessReturns ==
    /\ mode = "stateless"
    /\ frames[1].pc = "returned"
    /\ \E i \in DOMAIN frames[1].log : frames[1].log[i].hook = "guard"
    /\ frames[3].pc = "idle" /\ frames[2].pc = "idle"
    /\ frames[1].err = NoError


\* The current state a Trigger that panicked leaves: the state it started from
\* when the guard or the hook before the commit panicked, the transition's
\* to when the hook after the commit did.
StateAfterPanic(f) ==
    IF f.panic.by \in {"guard", "before", "evBefore"} THEN f.from ELSE f.t.to

\* C32: a stateful Trigger whose guard or event hook panics is left through
\* its deferred Unlock. While it unwinds it still holds the lock and the
\* current state is the source state (panic in the guard or in
\* BeforeTransition) or the target state (panic in AfterTransition); the
\* Unlock step frees the lock and leaves that state; the caller gets the very
\* panic the guard or hook raised and no error value; and the lock is never
\* held by a call that is over, so later Trigger and GetCurrentState calls
\* find it free once the calls in progress are done.
C32_LockReleasedOnPanic ==
    /\ [](/\ \A th \in DOMAIN frames :
               LET f == frames[th] IN
               (f.op = "Trigger" /\ f.panic # NoPanic) =>
                   /\ f.log # <<>>
                   /\ f.log[Len(f.log)].panicked
                   /\ f.panic = PanicOf(f.log[Len(f.log)].hook, f.log[Len(f.log)].fn)
                   /\ f.err = NoError
                   /\ f.pc \in {"unlock", "returned"}
                   /\ f.pc = "unlock" =>
                         /\ engines[f.eng].mu.writer = th
                         /\ GetCurrentState(f.eng) = StateAfterPanic(f)
                   /\ f.pc = "returned" => engines[f.eng].mu.writer # th
          /\ \A k \in DOMAIN engines :
               engines[k].mu.writer # 0 =>
                   /\ frames[engines[k].mu.writer].op = "Trigger"
                   /\ frames[engines[k].mu.writer].pc \in
                         {"lookup", "guard", "before", "commit", "after", "unlock"})
    /\ [][\A th \in DOMAIN frames :
            LET f == frames[th] IN
            (f.op = "Trigger" /\ f.panic # NoPanic /\ f.pc = "unlock"
                /\ frames'[th].pc = "returned") =>
                /\ engines'[f.eng].mu = Unlocked
                /\ engines'[f.eng].currentState = StateAfterPanic(f)
                /\ frames'[th].panic = f.panic
                /\ frames'[th].err = NoError]_vars

\* A Trigger from Closed to Open ended with the panic of the event's
\* AfterTransition; afterwards a GetCurrentState of the other goroutine
\* took the lock, read Open and returned.
C32_Witness ==
    /\ frames[1].op = "Trigger" /\ frames[1].pc = "returned"
    /\ frames[1].panic = PanicOf("evAfter", "hooked")
    /\ frames[1].from = Closed /\ frames[1].t.to = Open
    /\ frames[2].op = "GetCurrentState" /\ frames[2].pc = "returned"
    /\ frames[2].ret = Open
    /\ engines[frames[1].eng].mu = Unlocked

\* A Trigger ended with the panic of its guard and left the state alone;
\* afterwards a Trigger of the other goroutine went through.
C32_GuardPanicThenTrigger ==
    /\ frames[1].op = "Trigger" /\ frames[1].pc = "returned"
    /\ frames[1].panic.by = "guard"
    /\ frames[2].op = "Trigger" /\ frames[2].pc = "returned"
    /\ frames[2].panic = NoPanic /\ frames[2].err = NoError
    /\ frames[2].from = frames[1].from
    /\ Len(frames[2].log) > 0

\* A Trigger ended with the panic of the event's BeforeTransition and the
\* current state is still its source state.
C32_BeforePanic ==
    /\ frames[1].op = "Trigger" /\ frames[1].pc = "returned"
    /\ frames[1].panic.by = "evBefore"
    /\ frames[1].t.to # frames[1].from
    /\ frames[2].pc = "idle"
    /\ GetCurrentState(frames[1].eng) = frames[1].from

====
